---------------------------- MODULE Spec2Model ----------------------------
(***************************************************************************)
(* fig4ai: the pseudo-code generator (src/generators/pseudo-generator.js), *)
(* its two LLM clients, and the document walks of the token and canvas     *)
(* processors.                                                             *)
(*                                                                         *)
(* A run of the tool is one record: the process's command line and         *)
(* environment, the generator module's state (client, hasAICapability,     *)
(* claudeClient), the locals of generateAllPseudoCode and of the callAI    *)
(* invocation in progress, and the two result maps.  run maps a run        *)
(* number to that record: Spec has one run, PairSpec two runs over the     *)
(* same fetched document.                                                  *)
(***************************************************************************)
EXTENDS Integers, Sequences, FiniteSets, TLC

VARIABLES
    figmaData,   \* the fetched Figma file the run works on
    run,         \* run number -> the state of that run
    walk,        \* the document walks of main: position, tokens, instances
    proc,        \* the process of main: command line, position, report, exit
    figma,       \* the Figma client: the operation in progress, its requests
    calc         \* a pure function applied to an input: its argument and value

vars == <<figmaData, run, walk, proc, figma, calc>>

---------------------------------------------------------------------------
(* Program constants: the default options of AIWrapper.callAI.             *)

chunkSize == 2000

baseDelay == 2000

maxRetries == 5

chunkDelay == 5000

maxGPT4Tokens == 6000

backoffCap == 120000

childrenPerChunk == 2

(* Bounds of the model.  attempt and the call counters grow without bound  *)
(* in the chunk loop; they saturate at these caps.  From attempt = 6 on    *)
(* every comparison with maxRetries and every backoff delay is the same,   *)
(* so a saturated attempt behaves as the larger value would.               *)

MaxAttempt == 6

MaxCalls == 8

---------------------------------------------------------------------------
(* Small helpers.                                                          *)

Min(a, b) == IF a < b THEN a ELSE b

Max(a, b) == IF a > b THEN a ELSE b

RECURSIVE Pow2(_)
Pow2(n) == IF n = 0 THEN 1 ELSE 2 * Pow2(n - 1)

Bump(n, cap) == IF n < cap THEN n + 1 ELSE n

RECURSIVE Flatten(_)
Flatten(ss) == IF ss = << >> THEN << >> ELSE Head(ss) \o Flatten(Tail(ss))

---------------------------------------------------------------------------
(* Mutant of exponentialBackoff: the delay is not capped.                  *)
exponentialBackoff_Uncapped(attempt, base) == base * Pow2(attempt)

(* exponentialBackoff(attempt, baseDelay)                                  *)

exponentialBackoff(attempt, base) == Min(base * Pow2(attempt), backoffCap)

---------------------------------------------------------------------------
(* The fetched file.  components and instances are what main passes to     *)
(* generateAllPseudoCode (tokens.components and the instance walk's        *)
(* result); document.children are the canvases.  Lengths are in            *)
(* characters: promptLen is messages[0].content.length of the artifact's   *)
(* prompt, dataLen the length of JSON.stringify(frame, null, 2) embedded   *)
(* under "Complete Frame Data:".  marker says that a component's prompt    *)
(* text (its name or description) contains the literal                     *)
(* 'Complete Frame Data:'; a frame prompt always does.                     *)

Component(id, name, promptLen, marker) ==
    [id |-> id, name |-> name, promptLen |-> promptLen, marker |-> marker]

Instance(id, componentId) == [id |-> id, componentId |-> componentId]

Node(id, name, type, dataLen, promptLen, nChildren) ==
    [id |-> id, name |-> name, type |-> type, dataLen |-> dataLen,
     promptLen |-> promptLen, nChildren |-> nChildren,
     width |-> 0, height |-> 0, layoutMode |-> "undefined", itemSpacing |-> "undefined",
     children |-> << >>]

(* A node with child nodes of its own.                                     *)
Nested(node, children) == [node EXCEPT !.children = children]

(* A node with an absoluteBoundingBox and an auto-layout direction;        *)
(* itemSpacing is the text a template literal makes of it.                 *)
Sized(node, width, height, layoutMode, itemSpacing) ==
    [node EXCEPT !.width = width, !.height = height,
                 !.layoutMode = layoutMode, !.itemSpacing = itemSpacing]

Canvas(id, name, children) ==
    [id |-> id, name |-> name, type |-> "CANVAS", children |-> children]

File(components, instances, canvases) ==
    [components |-> components, instances |-> instances,
     document |-> [children |-> canvases]]

DocLibrary ==
    File(<<Component("c1", "Button", 4000, FALSE),
           Component("c2", "Card", 30000, FALSE),
           Component("c3", "Icon", 4000, FALSE)>>,
         <<Instance("i1", "c1"), Instance("i2", "c2"),
           Instance("i3", "c1"), Instance("i4", "cZ")>>,
         <<Canvas("0:1", "Page 1",
                  <<Node("1:4", "Card Frame", "FRAME", 1500, 5000, 1),
                    Node("1:9", "Notes", "GROUP", 300, 0, 2)>>)>>)

DocChunked ==
    File(<< >>, << >>,
         <<Canvas("0:1", "Page 1",
                  <<Node("1:2", "Hero", "FRAME", 2600, 8000, 3)>>),
           Canvas("0:2", "Page 2",
                  <<Node("2:1", "Footer", "FRAME", 1500, 5000, 0)>>)>>)

DocLarge ==
    File(<<Component("c9", "Complete Frame Data: legend", 30000, TRUE)>>,
         <<Instance("i9", "c9")>>,
         <<Canvas("0:1", "Page 1",
                  <<Node("3:1", "Dashboard", "FRAME", 12000, 30000, 1)>>)>>)

DocEmpty ==
    File(<<Component("c1", "Button", 4000, FALSE)>>, << >>,
         <<Canvas("0:1", "Page 1", << >>)>>)

(* The file of the sample report: one canvas with one vertical frame.      *)
DocScenario ==
    File(<< >>, << >>,
         <<Canvas("0:1", "Related Posts Card",
                  <<Sized(Node("1:4", "Related Posts Card", "FRAME", 1500, 5000, 1),
                          297, 332, "VERTICAL", "undefined")>>)>>)

Docs == {DocLibrary, DocChunked, DocLarge, DocEmpty, DocScenario}

(* A document with a frame inside a frame, a frame inside a group, and a   *)
(* page without frames.                                                    *)
DocNested ==
    File(<< >>, << >>,
         <<Canvas("0:1", "Page 1",
                  <<Nested(Node("1:1", "Outer", "FRAME", 1500, 5000, 1),
                           <<Node("1:2", "Inner", "FRAME", 1500, 5000, 0)>>),
                    Nested(Node("1:3", "Group", "GROUP", 1500, 5000, 1),
                           <<Node("1:4", "Grouped", "FRAME", 1500, 5000, 0)>>),
                    Node("1:5", "Last", "FRAME", 1500, 5000, 0)>>),
           Canvas("0:2", "Page 2",
                  <<Node("2:1", "Title", "TEXT", 1500, 5000, 0)>>)>>)

(* canvas.children?.filter(child => child.type === 'FRAME')                *)
(*                 ?.map(frame => ({id, name, type, size, ..., elements})) *)
RECURSIVE FrameSummaries(_)
FrameSummaries(children) ==
    IF children = << >> THEN << >>
    ELSE LET frame == Head(children) IN
         (IF frame.type = "FRAME"
          THEN <<[id |-> frame.id, name |-> frame.name, type |-> frame.type,
                  width |-> frame.width, height |-> frame.height,
                  layoutMode |-> frame.layoutMode,
                  itemSpacing |-> frame.itemSpacing,
                  elements |-> Len(frame.children)]>>
          ELSE << >>)
         \o FrameSummaries(Tail(children))

(* processCanvases(document): one summary per child of the root, with the  *)
(* raw child count and the summaries of its FRAME children.                *)
processCanvases(document) ==
    [i \in DOMAIN document.children |->
        LET canvas == document.children[i] IN
        [id |-> canvas.id, name |-> canvas.name, type |-> canvas.type,
         children |-> Len(canvas.children),
         frames |-> FrameSummaries(canvas.children)]]

(* canvases.flatMap(canvas => canvas.frames)                               *)
FlatFrames(canvases) ==
    Flatten([i \in DOMAIN canvases |-> canvases[i].frames])

(* Mutant of FramesOf: frames below a direct child are kept as well.       *)
RECURSIVE FramesOf_Nested(_)
FramesOf_Nested(children) ==
    IF children = << >> THEN << >>
    ELSE (IF Head(children).type = "FRAME" THEN <<Head(children)>> ELSE << >>)
         \o FramesOf_Nested(Head(children).children)
         \o FramesOf_Nested(Tail(children))

(* canvas.children?.filter(child => child.type === 'FRAME') || []          *)
RECURSIVE FramesOf(_)
FramesOf(children) ==
    IF children = << >> THEN << >>
    ELSE (IF Head(children).type = "FRAME" THEN <<Head(children)>> ELSE << >>)
         \o FramesOf(Tail(children))

(* Mutant of InstancesOf: the matching instances are listed last to first. *)
RECURSIVE InstancesOf_Reversed(_, _)
InstancesOf_Reversed(instances, componentId) ==
    IF instances = << >> THEN << >>
    ELSE InstancesOf_Reversed(Tail(instances), componentId)
         \o (IF Head(instances).componentId = componentId
             THEN <<Head(instances)>> ELSE << >>)

(* instances.filter(i => i.componentId === component.id)                   *)
RECURSIVE InstancesOf(_, _)
InstancesOf(instances, componentId) ==
    IF instances = << >> THEN << >>
    ELSE (IF Head(instances).componentId = componentId
          THEN <<Head(instances)>> ELSE << >>)
         \o InstancesOf(Tail(instances), componentId)

---------------------------------------------------------------------------
(* Pseudo-code texts are sequences of lines; a line is a tuple of strings. *)
(* JSON.stringify(x, null, 2) of an instance or a frame is one line naming *)
(* the object serialised.                                                  *)

Json(what, id) == <<"json", what, id>>

PseudoResult(name, pseudoCode) == [name |-> name, pseudoCode |-> pseudoCode]

(* generatePseudoComponent, AI disabled: heading, the JSON in a fence.     *)
DisabledComponent(component, instance) ==
    PseudoResult(component.name,
                 <<<<"#", component.name>>, <<"fence">>,
                   Json("instance", instance.id), <<"fence">>>>)

(* generatePseudoComponent, catch: heading and the JSON, no fence.         *)
FallbackComponent(name, instanceId) ==
    PseudoResult(name, <<<<"#", name>>, Json("instance", instanceId)>>)

(* generatePseudoFrame, AI disabled and catch: the same text.              *)
FallbackFrame(name, canvasName, frameId) ==
    PseudoResult(name, <<<<"#", name, "(Canvas:", canvasName, ")">>,
                         Json("frame", frameId)>>)

(* The artifact a callAI invocation works on: what generatePseudoComponent *)
(* or generatePseudoFrame holds while it awaits callAI.                    *)
NoArt ==
    [kind |-> "none", id |-> "", name |-> "", data |-> "", canvas |-> "",
     promptLen |-> 0, marker |-> FALSE, dataLen |-> 0, nChildren |-> 0]

ComponentArt(component, instance) ==
    [kind |-> "component", id |-> component.id, name |-> component.name,
     data |-> instance.id, canvas |-> "", promptLen |-> component.promptLen,
     marker |-> component.marker, dataLen |-> 0, nChildren |-> 0]

FrameArt(frame, canvas) ==
    [kind |-> "frame", id |-> frame.id, name |-> frame.name,
     data |-> frame.id, canvas |-> canvas.name, promptLen |-> frame.promptLen,
     marker |-> TRUE, dataLen |-> frame.dataLen, nChildren |-> frame.nChildren]

Fallback(art) ==
    IF art.kind = "component" THEN FallbackComponent(art.name, art.data)
    ELSE FallbackFrame(art.name, art.canvas, art.data)

(* Map.prototype.set on a map kept as its entries in insertion order.      *)
MapSet(m, k, v) ==
    IF \E i \in DOMAIN m : m[i].key = k
    THEN [i \in DOMAIN m |-> IF m[i].key = k THEN [key |-> k, value |-> v] ELSE m[i]]
    ELSE Append(m, [key |-> k, value |-> v])

MapKeys(m) == [i \in DOMAIN m |-> m[i].key]

---------------------------------------------------------------------------
(* What a provider can answer.  A response carries a function call whose   *)
(* arguments parse to a payload ("ok"), carries no function call           *)
(* ("noCall"), or carries arguments that are not JSON ("badArgs"); an      *)
(* error carries an HTTP status.                                           *)

Payloads ==
    {PseudoResult("A", <<<<"<A/>">>>>), PseudoResult("B", <<<<"<B/>">>>>)}

NoPayload == PseudoResult("", << >>)

Response(kind, payload) == [kind |-> kind, payload |-> payload, status |-> 200]

ApiError(status) == [kind |-> "error", payload |-> NoPayload, status |-> status]

Responses ==
    {Response("ok", p) : p \in Payloads}
        \cup {Response("noCall", NoPayload), Response("badArgs", NoPayload)}

ApiErrors == {ApiError(429), ApiError(500)}

OpenAIOutcomes == Responses \cup ApiErrors

(* The Anthropic API: content with a tool_use block, content without one,  *)
(* or an error.  tool_use.input is an object, so its arguments parse.      *)
ClaudeOutcomes ==
    {Response("ok", p) : p \in Payloads}
        \cup {Response("noCall", NoPayload)} \cup ApiErrors

(* ClaudeClient.chat: a tool_use block is returned in the OpenAI shape;    *)
(* everything else is thrown as a new Error, which has no status.          *)
NoStatus == 0

Returned(completion) == [how |-> "return", completion |-> completion, status |-> NoStatus]

Thrown(status) == [how |-> "throw", completion |-> Response("none", NoPayload), status |-> status]

Exhausted == [how |-> "undefined", completion |-> Response("none", NoPayload), status |-> NoStatus]

ClaudeChat(api) == IF api.kind = "ok" THEN Returned(api) ELSE Thrown(NoStatus)

---------------------------------------------------------------------------
(* The state of one run.                                                   *)

NoLast ==
    [art |-> NoArt, client |-> "none", path |-> "none", outcome |-> Exhausted,
     openaiCalls |-> 0, claudeCalls |-> 0, n429 |-> 0, attempt |-> 0,
     claudeClient |-> FALSE]

(* The process as the generator module is loaded: the command line and the *)
(* environment, client undefined, hasAICapability false, and claudeClient  *)
(* constructed when CLAUDE_API_KEY is set.  model is the argument          *)
(* initializeAI was called with ("none": not called).                      *)
Loaded(noAi, openaiKey, claudeKey) ==
    [noAi |-> noAi, OPENAI_API_KEY |-> openaiKey, CLAUDE_API_KEY |-> claudeKey,
     model |-> "none",
     client |-> "none", hasAICapability |-> FALSE, claudeClient |-> claudeKey,
     pc |-> "start", ci |-> 1, cv |-> 1, fr |-> 1,
     pseudoComponents |-> << >>, pseudoFrames |-> << >>,
     art |-> NoArt, callClient |-> "none", path |-> "none",
     attempt |-> 0, currentIndex |-> 0, results |-> << >>,
     sleepMs |-> 0, inFlight |-> "none",
     openaiCalls |-> 0, claudeCalls |-> 0, n429 |-> 0,
     called |-> {}, last |-> NoLast]

Processes ==
    {Loaded(noAi, openaiKey, claudeKey) :
        noAi \in BOOLEAN, openaiKey \in BOOLEAN, claudeKey \in BOOLEAN}

Models == {"gpt4", "claude"}

Runs == {1, 2}

(* Run r is at control point pc; run r moves to state s.                   *)
At(r, pc) == r \in DOMAIN run /\ run[r].pc = pc

Step(r, s) == run' = [run EXCEPT ![r] = s] /\ UNCHANGED <<figmaData, walk, proc, figma, calc>>

---------------------------------------------------------------------------
(* Mutant of initializeAI: --no-ai is honoured for the gpt4 model only.     *)
initializeAI_FlagForGpt4Only(s, model, constructed) ==
    IF s.noAi /\ model = "gpt4" THEN [s EXCEPT !.hasAICapability = FALSE]
    ELSE IF ~constructed THEN [s EXCEPT !.hasAICapability = FALSE]
    ELSE IF model = "gpt4" /\ s.OPENAI_API_KEY
         THEN [s EXCEPT !.client = "openai", !.hasAICapability = TRUE]
    ELSE IF model = "claude" /\ s.CLAUDE_API_KEY
         THEN [s EXCEPT !.client = "claude", !.hasAICapability = TRUE]
    ELSE s

(* Mutant of initializeAI: the --no-ai flag is not looked at.               *)
initializeAI_IgnoresFlag(s, model, constructed) ==
    IF ~constructed THEN s
    ELSE IF model = "gpt4" /\ s.OPENAI_API_KEY
         THEN [s EXCEPT !.client = "openai", !.hasAICapability = TRUE]
    ELSE IF model = "claude" /\ s.CLAUDE_API_KEY
         THEN [s EXCEPT !.client = "claude", !.hasAICapability = TRUE]
    ELSE s

(* initializeAI(model).  constructed is whether the client constructor     *)
(* returned (TRUE) or threw (FALSE).                                       *)
initializeAI(s, model, constructed) ==
    IF s.noAi THEN [s EXCEPT !.hasAICapability = FALSE]
    ELSE IF ~constructed
         THEN IF (model = "gpt4" /\ s.OPENAI_API_KEY) \/ (model = "claude" /\ s.CLAUDE_API_KEY)
              THEN [s EXCEPT !.hasAICapability = FALSE]
              ELSE s
    ELSE IF model = "gpt4" /\ s.OPENAI_API_KEY
         THEN [s EXCEPT !.client = "openai", !.hasAICapability = TRUE]
    ELSE IF model = "claude" /\ s.CLAUDE_API_KEY
         THEN [s EXCEPT !.client = "claude", !.hasAICapability = TRUE]
    ELSE s

InitializeAI(r) ==
    /\ At(r, "start")
    /\ \E model \in Models, constructed \in BOOLEAN :
          Step(r, [initializeAI(run[r], model, constructed) EXCEPT
                       !.pc = "ready", !.model = model])

(* generateAllPseudoCode is entered, after initializeAI or (as main does)  *)
(* without it.                                                             *)
GenerateAllPseudoCode(r) ==
    /\ r \in DOMAIN run
    /\ run[r].pc \in {"start", "ready"}
    /\ Step(r, [run[r] EXCEPT !.pc = "components"])

---------------------------------------------------------------------------
(* The decisions of generatePseudoComponent, generatePseudoFrame, callAI.  *)

(* if (!hasAICapability || !client)                                        *)
AIDisabled(s) == ~s.hasAICapability \/ s.client = "none"

(* Mutant of FrameClient: the initialised client is preferred.             *)
FrameClient_ClientFirst(s) == IF s.client # "none" THEN s.client ELSE "claude"

(* const frameClient = claudeClient || client                              *)
FrameClient(s) == IF s.claudeClient THEN "claude" ELSE s.client

(* estimatedTokens = content.length / 4; estimatedTokens > maxGPT4Tokens.  *)
(* The division is exact (a float), so the test is on four times the       *)
(* ceiling.                                                                *)
ExceedsGPT4(promptLen) == promptLen > 4 * maxGPT4Tokens

(* client instanceof OpenAI && estimatedTokens > options.maxGPT4Tokens &&  *)
(* claudeClient && messages[0].content.includes('Complete Frame Data:')    *)
RoutesToFallback(s) ==
    /\ s.callClient = "openai"
    /\ ExceedsGPT4(s.art.promptLen)
    /\ s.claudeClient
    /\ s.art.marker

(* The prompt holds a "Complete Frame Data:" block (it is a frame prompt)  *)
(* and frameMatch[1].length > options.chunkSize.                           *)
ShouldChunk(art) == art.marker /\ art.kind = "frame" /\ art.dataLen > chunkSize

(* chunks.length: the metadata chunk, then one chunk per two children.     *)
ChunkCount(art) ==
    1 + (art.nChildren + childrenPerChunk - 1) \div childrenPerChunk

(* Mutant of LoopCondition: the loop ends one attempt earlier.             *)
LoopCondition_OneLess(s) == s.attempt < maxRetries - 1

(* while (attempt < options.maxRetries)                                    *)
LoopCondition(s) == s.attempt < maxRetries

(* Mutant of ShouldRetry: the ceiling is tested one attempt too late.       *)
ShouldRetry_OffByOne(s, status) == status = 429 /\ s.attempt < maxRetries

(* The outer catch: error.status === 429 && attempt < maxRetries - 1.      *)
ShouldRetry(s, status) == status = 429 /\ s.attempt < maxRetries - 1

(* Mutant of ShouldRetryChunk: every error of a chunk call is retried.     *)
ShouldRetryChunk_AnyError(s, status) == TRUE

(* The chunk catch: error.status === 429, with no test of attempt.         *)
ShouldRetryChunk(s, status) == status = 429

---------------------------------------------------------------------------
(* generatePseudoComponent / generatePseudoFrame around callAI.            *)

(* Mutant of ParseOrFallback: whatever callAI returned is taken as parsed.  *)
ParseOrFallback_Unchecked(art, outcome) ==
    IF outcome.how = "return" THEN outcome.completion.payload ELSE Fallback(art)

(* The try block after callAI has settled: the parsed arguments of the     *)
(* function call, or (callAI threw, completion undefined, no function      *)
(* call, arguments not JSON) the catch block's fallback.                   *)
ParseOrFallback(art, outcome) ==
    IF outcome.how = "return" /\ outcome.completion.kind = "ok"
    THEN outcome.completion.payload
    ELSE Fallback(art)

(* Mutant of EnterCallAI: attempt is carried over from the invocation      *)
(* before.                                                                 *)
EnterCallAI_KeepsAttempt(s, art, client) ==
    [s EXCEPT !.pc = "callAI", !.art = art, !.callClient = client,
              !.path = "none", !.attempt = s.last.attempt, !.currentIndex = 0,
              !.results = << >>, !.sleepMs = 0, !.inFlight = "none",
              !.openaiCalls = 0, !.claudeCalls = 0, !.n429 = 0,
              !.last = NoLast]

(* callAI is entered: attempt = 0.                                         *)
EnterCallAI(s, art, client) ==
    [s EXCEPT !.pc = "callAI", !.art = art, !.callClient = client,
              !.path = "none", !.attempt = 0, !.currentIndex = 0,
              !.results = << >>, !.sleepMs = 0, !.inFlight = "none",
              !.openaiCalls = 0, !.claudeCalls = 0, !.n429 = 0,
              !.last = NoLast]

(* callAI has settled with outcome: the artifact's result is stored in its *)
(* map and the loop of generateAllPseudoCode goes on.  last keeps what the *)
(* invocation did.                                                         *)
Settle(s, outcome) ==
    LET res  == ParseOrFallback(s.art, outcome)
        back == [s EXCEPT !.art = NoArt, !.callClient = "none", !.path = "none",
                          !.attempt = 0, !.currentIndex = 0, !.results = << >>,
                          !.sleepMs = 0, !.inFlight = "none",
                          !.openaiCalls = 0, !.claudeCalls = 0, !.n429 = 0,
                          !.last = [art |-> s.art, client |-> s.callClient,
                                    path |-> s.path, outcome |-> outcome,
                                    openaiCalls |-> s.openaiCalls,
                                    claudeCalls |-> s.claudeCalls,
                                    n429 |-> s.n429, attempt |-> s.attempt,
                                    claudeClient |-> s.claudeClient]]
    IN  IF s.art.kind = "component"
        THEN [back EXCEPT !.pseudoComponents = MapSet(@, s.art.id, res),
                          !.ci = @ + 1, !.pc = "components"]
        ELSE [back EXCEPT !.pseudoFrames = MapSet(@, s.art.id, res),
                          !.fr = @ + 1, !.pc = "frames"]

(* An artifact generated with AI disabled: no callAI.                      *)
Disabled(art) == [NoLast EXCEPT !.art = art, !.path = "disabled"]

---------------------------------------------------------------------------
(* generateAllPseudoCode: the component loop, then the canvas/frame loops. *)

(* Mutant of ComponentsDone: the component loop is left after its first     *)
(* component.                                                              *)
ComponentsDone_AfterFirst(s) == s.ci > 1

(* for (const component of components) has run out                         *)
ComponentsDone(s) == s.ci > Len(figmaData.components)

NextComponent(r) ==
    /\ At(r, "components")
    /\ LET s == run[r] IN
       IF ComponentsDone(s)
       THEN Step(r, [s EXCEPT !.pc = "frames", !.last = NoLast])
       ELSE LET component == figmaData.components[s.ci]
                componentInstances == InstancesOf(figmaData.instances, component.id)
            IN  IF componentInstances = << >>
                THEN Step(r, [s EXCEPT !.ci = @ + 1, !.last = NoLast])
                ELSE LET mainInstance == componentInstances[1]
                         art == ComponentArt(component, mainInstance)
                     IN  IF AIDisabled(s)
                         THEN Step(r, [s EXCEPT
                                  !.pseudoComponents =
                                      MapSet(@, component.id,
                                             DisabledComponent(component, mainInstance)),
                                  !.ci = @ + 1, !.last = Disabled(art)])
                         ELSE Step(r, EnterCallAI(s, art, s.client))

NextFrame(r) ==
    /\ At(r, "frames")
    /\ LET s == run[r]
           canvases == figmaData.document.children
       IN
       IF s.cv > Len(canvases)
       THEN Step(r, [s EXCEPT !.pc = "done", !.last = NoLast])
       ELSE LET canvas == canvases[s.cv]
                frames == FramesOf(canvas.children)
            IN  IF s.fr > Len(frames)
                THEN Step(r, [s EXCEPT !.cv = @ + 1, !.fr = 1, !.last = NoLast])
                ELSE LET frame == frames[s.fr]
                         art == FrameArt(frame, canvas)
                     IN  IF AIDisabled(s)
                         THEN Step(r, [s EXCEPT
                                  !.pseudoFrames =
                                      MapSet(@, frame.id,
                                             FallbackFrame(frame.name, canvas.name, frame.id)),
                                  !.fr = @ + 1, !.last = Disabled(art)])
                         ELSE Step(r, EnterCallAI(s, art, FrameClient(s)))

---------------------------------------------------------------------------
(* AIWrapper.callAI, one action per stretch between two awaits.            *)

(* Mutant of Issue: the call is started and not awaited.                   *)
Issue_NotAwaited(s, provider, path, awaiting) ==
    [s EXCEPT !.path = path, !.sleepMs = 0,
              !.inFlight = provider,
              !.openaiCalls = IF provider = "openai" THEN Bump(@, MaxCalls) ELSE @,
              !.claudeCalls = IF provider = "claude" THEN Bump(@, MaxCalls) ELSE @,
              !.called = @ \cup {provider}]

(* A provider call is issued.                                              *)
Issue(s, provider, path, awaiting) ==
    [s EXCEPT !.pc = awaiting, !.path = path, !.sleepMs = 0,
              !.inFlight = provider,
              !.openaiCalls = IF provider = "openai" THEN Bump(@, MaxCalls) ELSE @,
              !.claudeCalls = IF provider = "claude" THEN Bump(@, MaxCalls) ELSE @,
              !.called = @ \cup {provider}]

(* The answer to the call in flight has arrived.                           *)
Answered(s, outcome) ==
    [s EXCEPT !.inFlight = "none",
              !.n429 = IF outcome.status = 429 THEN Bump(@, MaxCalls) ELSE @]

(* The catch of the retry loop: back off and go round again, or rethrow.   *)
OuterCatch(s, status) ==
    IF ShouldRetry(s, status)
    THEN LET a == Bump(s.attempt, MaxAttempt)
         IN  [s EXCEPT !.attempt = a, !.pc = "sleepRetry",
                       !.sleepMs = exponentialBackoff(a, baseDelay)]
    ELSE Settle(s, Thrown(status))

(* The head of the retry loop up to its first await: the loop test, the    *)
(* size-based routing to claudeClient, the choice of client.               *)
CallAI(r) ==
    /\ At(r, "callAI")
    /\ LET s == run[r] IN
       IF ~LoopCondition(s) THEN Step(r, Settle(s, Exhausted))
       ELSE IF RoutesToFallback(s)
            THEN Step(r, Issue(s, "claude", "fallback", "awaitClaude"))
       ELSE IF s.callClient = "openai"
            THEN Step(r, [s EXCEPT !.pc = "sleepRate",
                              !.sleepMs = exponentialBackoff(s.attempt, baseDelay)])
       ELSE Step(r, Issue(s, "claude", "claude", "awaitClaude"))

(* The rate-limiting sleep is over: chunk the frame, or make the one call. *)
RateSleepDone(r) ==
    /\ At(r, "sleepRate")
    /\ LET s == run[r] IN
       IF ShouldChunk(s.art)
       THEN Step(r, [s EXCEPT !.pc = "chunkLoop", !.path = "chunked", !.sleepMs = 0,
                              !.results = << >>, !.currentIndex = 0])
       ELSE Step(r, Issue(s, "openai", "plain", "awaitOpenAI"))

(* Mutant of CombinedPseudoCode: the bodies are joined last chunk first.   *)
CombinedPseudoCode_Reversed(results) ==
    Flatten([i \in DOMAIN results |-> results[Len(results) + 1 - i].payload.pseudoCode])

(* results.map(...).join: the pseudoCode bodies in chunk order.            *)
CombinedPseudoCode(results) ==
    Flatten([i \in DOMAIN results |-> results[i].payload.pseudoCode])

(* while (currentIndex < chunks.length), then the combination.  A result   *)
(* without a function call or with arguments that are not JSON throws in   *)
(* the combination, inside the retry loop's try.                           *)
ChunkLoop(r) ==
    /\ At(r, "chunkLoop")
    /\ LET s == run[r] IN
       IF s.currentIndex < ChunkCount(s.art)
       THEN IF s.currentIndex > 0
            THEN Step(r, [s EXCEPT !.pc = "sleepChunk",
                              !.sleepMs = Max(chunkDelay,
                                              exponentialBackoff(s.attempt, baseDelay))])
            ELSE Step(r, Issue(s, "openai", "chunked", "awaitChunk"))
       ELSE IF \A i \in DOMAIN s.results : s.results[i].kind = "ok"
            THEN Step(r, Settle(s, Returned(Response("ok",
                              PseudoResult(s.art.name, CombinedPseudoCode(s.results))))))
            ELSE Step(r, OuterCatch(s, NoStatus))

ChunkSleepDone(r) ==
    /\ At(r, "sleepChunk")
    /\ Step(r, Issue(run[r], "openai", "chunked", "awaitChunk"))

(* The chunk call has settled: push and advance, or (429) count the        *)
(* attempt, sleep and send the same chunk again, or rethrow.               *)
ChunkResponse(r) ==
    /\ At(r, "awaitChunk")
    /\ \E outcome \in OpenAIOutcomes :
          LET s == Answered(run[r], outcome) IN
          IF outcome.kind # "error"
          THEN Step(r, [s EXCEPT !.results = Append(@, outcome),
                                 !.currentIndex = @ + 1, !.pc = "chunkLoop"])
          ELSE IF ShouldRetryChunk(s, outcome.status)
               THEN LET a == Bump(s.attempt, MaxAttempt)
                    IN  Step(r, [s EXCEPT !.attempt = a, !.pc = "sleepChunkRetry",
                                     !.sleepMs = exponentialBackoff(a, baseDelay * 2)])
               ELSE Step(r, OuterCatch(s, outcome.status))

ChunkRetrySleepDone(r) ==
    /\ At(r, "sleepChunkRetry")
    /\ Step(r, [run[r] EXCEPT !.pc = "chunkLoop", !.sleepMs = 0])

(* return await client.chat.completions.create(...)                        *)
OpenAIResponse(r) ==
    /\ At(r, "awaitOpenAI")
    /\ \E outcome \in OpenAIOutcomes :
          LET s == Answered(run[r], outcome) IN
          IF outcome.kind # "error"
          THEN Step(r, Settle(s, Returned(outcome)))
          ELSE Step(r, OuterCatch(s, outcome.status))

RetrySleepDone(r) ==
    /\ At(r, "sleepRetry")
    /\ Step(r, [run[r] EXCEPT !.pc = "callAI", !.sleepMs = 0])

(* return claudeClient.chat(...) / return client.chat(...): the promise is *)
(* returned without await, so its rejection passes the retry loop's catch  *)
(* by and reaches the caller of callAI.                                    *)
ClaudeResponse(r) ==
    /\ At(r, "awaitClaude")
    /\ \E api \in ClaudeOutcomes :
          Step(r, Settle(Answered(run[r], api), ClaudeChat(api)))

---------------------------------------------------------------------------
(* The document walks of bin/index.js: processDesignTokens and             *)
(* processComponentInstances.  A node name is the sequence of its          *)
(* characters, so that toLowerCase, includes and the template literal of   *)
(* fullName are computed on the text itself.                               *)

UpperCase ==
    <<"A", "B", "C", "D", "E", "F", "G", "H", "I", "J", "K", "L", "M", "N", "O", "P", "Q", "R", "S", "T", "U", "V", "W", "X", "Y", "Z">>

LowerCase ==
    <<"a", "b", "c", "d", "e", "f", "g", "h", "i", "j", "k", "l", "m", "n", "o", "p", "q", "r", "s", "t", "u", "v", "w", "x", "y", "z">>

(* String.prototype.toLowerCase on the letters of the alphabet above.      *)
toLowerCase(str) ==
    [i \in DOMAIN str |->
        IF \E k \in DOMAIN UpperCase : UpperCase[k] = str[i]
        THEN LowerCase[CHOOSE k \in DOMAIN UpperCase : UpperCase[k] = str[i]]
        ELSE str[i]]

(* String.prototype.includes                                               *)
includes(str, sub) ==
    \E i \in 0..(Len(str) - Len(sub)) : SubSeq(str, i + 1, i + Len(sub)) = sub

EmptyName == << >>

Slash == <<"/">>

DocumentName == <<"D", "o", "c", "u", "m", "e", "n", "t">>

PrimaryName == <<"P", "r", "i", "m", "a", "r", "y">>

PageName == <<"P", "a", "g", "e", " ", "1">>

PrimaryFill == <<"P", "r", "i", "m", "a", "r", "y", "/", "F", "i", "l", "l">>

GenericShape == <<"G", "e", "n", "e", "r", "i", "c", " ", "S", "h", "a", "p", "e">>

SecondaryPrimary == <<"S", "e", "c", "o", "n", "d", "a", "r", "y", " ", "P", "r", "i", "m", "a", "r", "y">>

SecondaryName == <<"S", "e", "c", "o", "n", "d", "a", "r", "y">>

TextBg == <<"T", "e", "x", "t", " ", "B", "G">>

TypographyName == <<"T", "y", "p", "o", "g", "r", "a", "p", "h", "y">>

CardBG == <<"C", "a", "r", "d", " ", "B", "G">>

IconName == <<"I", "c", "o", "n">>

(* The substrings the color rules look for.                                *)
primary == <<"p", "r", "i", "m", "a", "r", "y">>

secondary == <<"s", "e", "c", "o", "n", "d", "a", "r", "y">>

text == <<"t", "e", "x", "t">>

typography == <<"t", "y", "p", "o", "g", "r", "a", "p", "h", "y">>

background == <<"b", "a", "c", "k", "g", "r", "o", "u", "n", "d">>

bg == <<"b", "g">>

HeadingH2 == <<"H", "e", "a", "d", "i", "n", "g", " ", "H", "2">>

H9 == <<"H", "9">>

HeadingName == <<"H", "e", "a", "d", "i", "n", "g">>

H4H2 == <<"H", "4", " ", "H", "2">>

ParagraphName == <<"P", "a", "r", "a", "g", "r", "a", "p", "h">>

(* The substrings and the digits the typography rules look for.            *)
heading == <<"h", "e", "a", "d", "i", "n", "g">>

body == <<"b", "o", "d", "y">>

paragraph == <<"p", "a", "r", "a", "g", "r", "a", "p", "h">>

HeadingDigits == {"1", "2", "3", "4", "5", "6"}

TreeNode(id, name, type, fills, children) ==
    [id |-> id, name |-> name, type |-> type, fills |-> fills,
     effects |-> << >>, styles |-> FALSE,
     layoutMode |-> IF type = "FRAME" THEN "VERTICAL" ELSE "none",
     componentId |-> "none",
     children |-> children]

(* An INSTANCE node of the component with the given id.                    *)
InstanceNode(id, name, componentId) ==
    [TreeNode(id, name, "INSTANCE", << >>, << >>) EXCEPT !.componentId = componentId]

(* A node with effects and a styles object.                                *)
Styled(node, effects) == [node EXCEPT !.effects = effects, !.styles = TRUE]

Solid == [type |-> "SOLID"]

Gradient == [type |-> "GRADIENT_LINEAR"]

DropShadow == [type |-> "DROP_SHADOW"]

LayerBlur == [type |-> "LAYER_BLUR"]

InnerShadow == [type |-> "INNER_SHADOW"]

BackgroundBlur == [type |-> "BACKGROUND_BLUR"]

Noise == [type |-> "NOISE"]

RootNames == {EmptyName, DocumentName}

CanvasNames == {EmptyName, PrimaryName, PageName}

ShapeNames ==
    {EmptyName, PrimaryFill, GenericShape, SecondaryPrimary, SecondaryName,
     TextBg, TypographyName, CardBG, HeadingH2, H9, HeadingName, H4H2,
     ParagraphName}

ShapeTypes == {"RECTANGLE", "VECTOR", "ELLIPSE", "FRAME", "COMPONENT", "TEXT"}

FillLists == {<< >>, <<Solid>>, <<Gradient>>, <<Solid, Gradient, Solid>>}

EffectLists ==
    {<< >>, <<DropShadow, LayerBlur, DropShadow>>, <<Noise, InnerShadow, BackgroundBlur, Noise>>}

(* A document: one canvas holding a node of any name, type, fills and      *)
(* effects, two rectangles with rectangles and instances below them, and   *)
(* a component.  The instances refer to the first node, to the component   *)
(* and to a component that is not in the document.                         *)
Tree(rootName, canvasName, shapeName, shapeType, fills) ==
    TreeNode("0:0", rootName, "DOCUMENT", << >>, <<
        TreeNode("0:1", canvasName, "CANVAS", << >>, <<
            TreeNode("1:1", shapeName, shapeType, fills, << >>),
            Styled(TreeNode("1:2", GenericShape, "RECTANGLE", <<Solid>>, <<
                InstanceNode("1:3", IconName, "1:1"),
                TreeNode("1:4", GenericShape, "RECTANGLE", <<Solid>>, << >>)>>),
                <<DropShadow>>),
            Styled(TreeNode("1:5", GenericShape, "RECTANGLE", <<Solid>>, <<
                InstanceNode("1:6", IconName, "1:8"),
                InstanceNode("1:7", CardBG, "1:1")>>),
                <<LayerBlur>>),
            TreeNode("1:8", IconName, "COMPONENT", << >>, <<
                InstanceNode("1:9", IconName, "9:9")>>)>>)>>)

(* The first node of the canvas with effects and a styles object.          *)
WithEffects(tree, effects) ==
    IF effects = << >> THEN tree
    ELSE [tree EXCEPT !.children[1].children[1] = Styled(@, effects)]

Trees ==
    {WithEffects(Tree(rn, cn, sn, st, fl), ef) :
        rn \in RootNames, cn \in CanvasNames, sn \in ShapeNames,
        st \in ShapeTypes, fl \in FillLists, ef \in EffectLists}

(* const fullName = parentName ? `parentName/name` : node.name; an empty   *)
(* parentName is falsy.                                                    *)
FullName(parentName, name) ==
    IF parentName # EmptyName THEN parentName \o Slash \o name ELSE name

(* Mutant of ColorBucket: the secondary rule is tried before primary.      *)
ColorBucket_SecondaryFirst(nameLower) ==
    IF includes(nameLower, secondary) THEN "secondary"
    ELSE IF includes(nameLower, primary) THEN "primary"
    ELSE IF includes(nameLower, text) \/ includes(nameLower, typography) THEN "text"
    ELSE IF includes(nameLower, background) \/ includes(nameLower, bg) THEN "background"
    ELSE "other"

(* The if / else if chain that categorizes a color token.                  *)
ColorBucket(nameLower) ==
    IF includes(nameLower, primary) THEN "primary"
    ELSE IF includes(nameLower, secondary) THEN "secondary"
    ELSE IF includes(nameLower, text) \/ includes(nameLower, typography) THEN "text"
    ELSE IF includes(nameLower, background) \/ includes(nameLower, bg) THEN "background"
    ELSE "other"

ColorBuckets == {"primary", "secondary", "text", "background", "other"}

HeadingKeys == <<"h1", "h2", "h3", "h4", "h5", "h6">>

HeadingDigitList == <<"1", "2", "3", "4", "5", "6">>

(* The places where /h[1-6]/ matches.                                      *)
HeadingMatches(nameLower) ==
    {i \in 1..(Len(nameLower) - 1) :
        nameLower[i] = "h" /\ nameLower[i + 1] \in HeadingDigits}

(* nameLower.match(/h([1-6])/)?.[1] as the key h<digit> of the first       *)
(* match, "none" for undefined.                                            *)
HeadingLevel(nameLower) ==
    IF HeadingMatches(nameLower) = {} THEN "none"
    ELSE LET i == CHOOSE m \in HeadingMatches(nameLower) :
                      \A n \in HeadingMatches(nameLower) : m <= n
             d == CHOOSE k \in DOMAIN HeadingDigitList :
                      HeadingDigitList[k] = nameLower[i + 1]
         IN  HeadingKeys[d]

(* Mutant of TypographyBucket: a heading without a level is filed under    *)
(* other.                                                                  *)
TypographyBucket_HeadingToOther(nameLower) ==
    IF HeadingLevel(nameLower) # "none" THEN HeadingLevel(nameLower)
    ELSE IF includes(nameLower, body) \/ includes(nameLower, text)
            \/ includes(nameLower, paragraph)
    THEN "body"
    ELSE "other"

(* The if / else if chain that categorizes a text style: a heading key,    *)
(* body, other, or none when nothing is pushed.                            *)
TypographyBucket(nameLower) ==
    IF includes(nameLower, heading) \/ HeadingMatches(nameLower) # {}
    THEN HeadingLevel(nameLower)
    ELSE IF includes(nameLower, body) \/ includes(nameLower, text)
            \/ includes(nameLower, paragraph)
    THEN "body"
    ELSE "other"

(* The chain that categorizes an effect token.                             *)
(* Mutant of EffectBucket: only DROP_SHADOW and LAYER_BLUR are recognised.  *)
EffectBucket_FirstOnly(type) ==
    IF type = "DROP_SHADOW" THEN "shadows"
    ELSE IF type = "LAYER_BLUR" THEN "blurs"
    ELSE "other"

(* The if / else if / else on effect.type.                                 *)
EffectBucket(type) ==
    IF type \in {"DROP_SHADOW", "INNER_SHADOW"} THEN "shadows"
    ELSE IF type \in {"LAYER_BLUR", "BACKGROUND_BLUR"} THEN "blurs"
    ELSE "other"

EffectBuckets == {"shadows", "blurs", "other"}

(* The default value of the tokens parameter.                              *)
EmptyTokens ==
    [typography |-> [headings |-> [k \in {HeadingKeys[i] : i \in DOMAIN HeadingKeys} |-> << >>],
                     body |-> << >>, other |-> << >>],
     colors |-> [b \in ColorBuckets |-> << >>],
     spacing |-> << >>,
     effects |-> [b \in EffectBuckets |-> << >>],
     components |-> << >>,
     styles |-> << >>]

(* node.fills.forEach: the color tokens of the SOLID fills, in fill order. *)
RECURSIVE ColorTokens(_, _, _, _)
ColorTokens(node, fullName, fills, i) ==
    IF i > Len(fills) THEN << >>
    ELSE (IF fills[i].type = "SOLID"
          THEN <<[id |-> node.id, name |-> fullName, fill |-> i]>>
          ELSE << >>)
         \o ColorTokens(node, fullName, fills, i + 1)

(* node.effects.forEach: each effect token is pushed to its bucket.        *)
RECURSIVE EffectTokens(_, _, _, _)
EffectTokens(effects, node, fullName, i) ==
    IF i > Len(node.effects) THEN effects
    ELSE EffectTokens(
             [effects EXCEPT ![EffectBucket(node.effects[i].type)] =
                 Append(@, [id |-> node.id, name |-> fullName,
                            type |-> node.effects[i].type, effect |-> i])],
             node, fullName, i + 1)

(* The TEXT case: the text style is pushed to at most one bucket.          *)
TypographyOfNode(typo, node, fullName, nameLower) ==
    LET textStyle == [id |-> node.id, name |-> fullName]
        bucket == TypographyBucket(nameLower)
    IN  IF bucket = "none" THEN typo
        ELSE IF bucket = "body" THEN [typo EXCEPT !.body = Append(@, textStyle)]
        ELSE IF bucket = "other" THEN [typo EXCEPT !.other = Append(@, textStyle)]
        ELSE [typo EXCEPT !.headings[bucket] = Append(@, textStyle)]

(* The switch on node.type for one node.                                   *)
SwitchOnType(tokens, node, fullName) ==
    LET nameLower == toLowerCase(node.name) IN
    IF node.type \in {"COMPONENT", "COMPONENT_SET"}
    THEN [tokens EXCEPT !.components =
              Append(@, [id |-> node.id, name |-> fullName, type |-> node.type])]
    ELSE IF node.type = "TEXT"
    THEN [tokens EXCEPT !.typography = TypographyOfNode(@, node, fullName, nameLower)]
    ELSE IF node.type \in {"RECTANGLE", "VECTOR", "ELLIPSE"}
    THEN [tokens EXCEPT !.colors[ColorBucket(nameLower)] =
              @ \o ColorTokens(node, fullName, node.fills, 1),
                        !.effects = EffectTokens(@, node, fullName, 1)]
    ELSE IF node.type = "FRAME" /\ node.layoutMode \in {"VERTICAL", "HORIZONTAL"}
    THEN [tokens EXCEPT !.spacing =
              Append(@, [id |-> node.id, name |-> fullName, type |-> node.layoutMode])]
    ELSE tokens

(* One call of processDesignTokens on a node, before the recursion: the    *)
(* switch, then the styles entry.                                          *)
TokensOfNode(tokens, node, fullName) ==
    LET switched == SwitchOnType(tokens, node, fullName) IN
    IF node.styles
    THEN [switched EXCEPT !.styles = Append(@, [id |-> node.id, name |-> fullName])]
    ELSE switched

(* Mutant of Calls: the children are taken last to first.                  *)
Calls_Reversed(node, fullName) ==
    [i \in DOMAIN node.children |->
        [node |-> node.children[Len(node.children) + 1 - i],
         parentName |-> fullName, parent |-> node.id]]

(* node.children.forEach(child => walk(child, acc, fullName)): the calls   *)
(* still to make, the first child on top.                                  *)
Calls(node, fullName) ==
    [i \in DOMAIN node.children |->
        [node |-> node.children[i], parentName |-> fullName, parent |-> node.id]]

RootCall == [node |-> figmaData.document, parentName |-> EmptyName, parent |-> "none"]

(* What a walk computed at one node; the node is kept without its          *)
(* subtree.                                                                *)
Visit(which, call, fullName) ==
    [walk |-> which, node |-> [call.node EXCEPT !.children = << >>],
     parent |-> call.parent, fullName |-> fullName]

NoWalk ==
    [pc |-> "idle", stack |-> << >>, tokens |-> EmptyTokens,
     instances |-> << >>, visited |-> << >>, yaml |-> << >>]

(* One call of processDesignTokens, up to its calls on the children.       *)
ProcessDesignTokens ==
    /\ walk.pc = "tokens"
    /\ walk.stack # << >>
    /\ LET call == Head(walk.stack)
           fullName == FullName(call.parentName, call.node.name)
       IN  walk' = [walk EXCEPT
                       !.tokens = TokensOfNode(@, call.node, fullName),
                       !.stack = Calls(call.node, fullName) \o Tail(@),
                       !.visited = Append(@, Visit("tokens", call, fullName))]
    /\ UNCHANGED <<figmaData, run, proc, figma, calc>>

(* main: processDesignTokens has returned; processComponentInstances is    *)
(* called on the same document.                                            *)
StartInstanceWalk ==
    /\ walk.pc = "tokens"
    /\ walk.stack = << >>
    /\ walk' = [walk EXCEPT !.pc = "instances", !.stack = <<RootCall>>]
    /\ UNCHANGED <<figmaData, run, proc, figma, calc>>

(* One call of processComponentInstances.                                  *)
ProcessComponentInstances ==
    /\ walk.pc = "instances"
    /\ walk.stack # << >>
    /\ LET call == Head(walk.stack)
           fullName == FullName(call.parentName, call.node.name)
       IN  walk' = [walk EXCEPT
                       !.instances =
                           IF call.node.type = "INSTANCE"
                           THEN Append(@, [id |-> call.node.id, name |-> fullName,
                                           componentId |-> call.node.componentId])
                           ELSE @,
                       !.stack = Calls(call.node, fullName) \o Tail(@),
                       !.visited = Append(@, Visit("instances", call, fullName))]
    /\ UNCHANGED <<figmaData, run, proc, figma, calc>>

(* generateComponentYAML.  componentMap is a Map in insertion order.       *)
RECURSIVE ComponentMap(_, _)
ComponentMap(components, map) ==
    IF components = << >> THEN map
    ELSE ComponentMap(Tail(components),
                      MapSet(map, Head(components).id,
                             [name |-> Head(components).name,
                              type |-> Head(components).type,
                              instances |-> << >>]))

(* Mutant of LinkInstance: an instance whose component is unknown is put   *)
(* under the first component.                                              *)
LinkInstance_UnmatchedToFirst(map, instance) ==
    [i \in DOMAIN map |->
        IF map[i].key = instance.componentId
           \/ (i = 1 /\ \A j \in DOMAIN map : map[j].key # instance.componentId)
        THEN [map[i] EXCEPT !.value.instances =
                 Append(@, [id |-> instance.id, name |-> instance.name])]
        ELSE map[i]]

(* if (componentMap.has(instance.componentId)) ... instances.push(...)     *)
LinkInstance(map, instance) ==
    [i \in DOMAIN map |->
        IF map[i].key = instance.componentId
        THEN [map[i] EXCEPT !.value.instances =
                 Append(@, [id |-> instance.id, name |-> instance.name])]
        ELSE map[i]]

RECURSIVE LinkInstances(_, _)
LinkInstances(instances, map) ==
    IF instances = << >> THEN map
    ELSE LinkInstances(Tail(instances), LinkInstance(map, Head(instances)))

RECURSIVE InstanceYAML(_)
InstanceYAML(instances) ==
    IF instances = << >> THEN << >>
    ELSE <<<<"- id:", Head(instances).id>>, <<"name:", Head(instances).name>>>>
         \o InstanceYAML(Tail(instances))

RECURSIVE ComponentYAML(_)
ComponentYAML(map) ==
    IF map = << >> THEN << >>
    ELSE <<<<"key:", Head(map).key>>, <<"name:", Head(map).value.name>>,
           <<"type:", Head(map).value.type>>>>
         \o (IF Head(map).value.instances # << >>
             THEN <<<<"instances:">>>> \o InstanceYAML(Head(map).value.instances)
             ELSE << >>)
         \o <<<<"">>>>
         \o ComponentYAML(Tail(map))

generateComponentYAML(components, instances) ==
    <<<<"components:">>>>
    \o ComponentYAML(LinkInstances(instances, ComponentMap(components, << >>)))

(* Both walks have returned: main calls generateComponentYAML on           *)
(* tokens.components and the instances.                                    *)
WalksDone ==
    /\ walk.pc = "instances"
    /\ walk.stack = << >>
    /\ walk' = [walk EXCEPT !.pc = "done",
                            !.yaml = generateComponentYAML(walk.tokens.components,
                                                           walk.instances)]
    /\ UNCHANGED <<figmaData, run, proc, figma, calc>>

---------------------------------------------------------------------------
(* parseFigmaUrl (bin/index.js, utils/url-parser.js).  A URL is the        *)
(* sequence of its characters; new URL, split, searchParams.get and        *)
(* decodeURIComponent are computed on it.                                  *)

startsWith(str, prefix) ==
    Len(str) >= Len(prefix) /\ SubSeq(str, 1, Len(prefix)) = prefix

(* String.prototype.indexOf, counted from 1; 0 when absent.                *)
IndexOf(str, sub) ==
    IF includes(str, sub)
    THEN CHOOSE i \in 1..(Len(str) - Len(sub) + 1) :
             /\ SubSeq(str, i, i + Len(sub) - 1) = sub
             /\ \A j \in 1..(i - 1) : SubSeq(str, j, j + Len(sub) - 1) # sub
    ELSE 0

(* String.prototype.split on a one-character separator.                    *)
RECURSIVE Split(_, _)
Split(str, sep) ==
    IF IndexOf(str, <<sep>>) = 0 THEN <<str>>
    ELSE <<SubSeq(str, 1, IndexOf(str, <<sep>>) - 1)>>
         \o Split(SubSeq(str, IndexOf(str, <<sep>>) + 1, Len(str)), sep)

(* .filter(Boolean) on strings: the empty ones are dropped.                *)
RECURSIVE NonEmpty(_)
NonEmpty(parts) ==
    IF parts = << >> THEN << >>
    ELSE (IF Head(parts) # << >> THEN <<Head(parts)>> ELSE << >>) \o NonEmpty(Tail(parts))

http == <<"h", "t", "t", "p">>

https == <<"h", "t", "t", "p", "s">>

SchemeSeparator == <<":", "/", "/">>

figmaCom == <<"f", "i", "g", "m", "a", ".", "c", "o", "m">>

nodeIdParam == <<"n", "o", "d", "e", "-", "i", "d">>

(* The percent escapes of the model and the characters they stand for.     *)
Escapes == {<<"2", "0">>, <<"3", "A">>, <<"2", "D">>}

Unescaped(pair) ==
    IF pair = <<"2", "0">> THEN " " ELSE IF pair = <<"3", "A">> THEN ":" ELSE "-"

URIError == <<"URIError">>

Null == <<"null">>

Undefined == <<"undefined">>

(* decodeURIComponent: a percent sign not followed by an escape throws.    *)
RECURSIVE decodeURIComponent(_)
decodeURIComponent(str) ==
    IF str = << >> THEN << >>
    ELSE IF Head(str) # "%"
         THEN IF decodeURIComponent(Tail(str)) = URIError THEN URIError
              ELSE <<Head(str)>> \o decodeURIComponent(Tail(str))
    ELSE IF Len(str) >= 3 /\ SubSeq(str, 2, 3) \in Escapes
         THEN IF decodeURIComponent(SubSeq(str, 4, Len(str))) = URIError THEN URIError
              ELSE <<Unescaped(SubSeq(str, 2, 3))>>
                   \o decodeURIComponent(SubSeq(str, 4, Len(str)))
    ELSE URIError

(* The decoding of URLSearchParams: plus is a space, a percent sign not    *)
(* followed by an escape stays.                                            *)
RECURSIVE FormDecode(_)
FormDecode(str) ==
    IF str = << >> THEN << >>
    ELSE IF Head(str) = "+" THEN <<" ">> \o FormDecode(Tail(str))
    ELSE IF Head(str) = "%" /\ Len(str) >= 3 /\ SubSeq(str, 2, 3) \in Escapes
         THEN <<Unescaped(SubSeq(str, 2, 3))>> \o FormDecode(SubSeq(str, 4, Len(str)))
    ELSE <<Head(str)>> \o FormDecode(Tail(str))

InvalidURL == [valid |-> FALSE, hostname |-> << >>, pathname |-> << >>, search |-> << >>]

(* The first position of a slash or question mark, or one past the end.    *)
AuthorityEnd(rest) ==
    IF \E i \in DOMAIN rest : rest[i] \in {"/", "?"}
    THEN CHOOSE i \in DOMAIN rest :
             rest[i] \in {"/", "?"} /\ \A j \in 1..(i - 1) : rest[j] \notin {"/", "?"}
    ELSE Len(rest) + 1

(* new URL(text) for http and https: scheme, host (lower-cased), path and  *)
(* query.  A text without scheme or host throws.                           *)
NewURL(str) ==
    LET sep == IndexOf(str, SchemeSeparator)
        rest == SubSeq(str, sep + 3, Len(str))
        hostEnd == AuthorityEnd(rest)
        afterHost == SubSeq(rest, hostEnd, Len(rest))
        query == IndexOf(afterHost, <<"?">>)
        path == IF query = 0 THEN afterHost ELSE SubSeq(afterHost, 1, query - 1)
    IN  IF sep = 0 \/ SubSeq(str, 1, sep - 1) \notin {http, https} \/ hostEnd = 1
        THEN InvalidURL
        ELSE [valid |-> TRUE,
              hostname |-> toLowerCase(SubSeq(rest, 1, hostEnd - 1)),
              pathname |-> IF path = << >> THEN <<"/">> ELSE path,
              search |-> IF query = 0 THEN << >>
                         ELSE SubSeq(afterHost, query + 1, Len(afterHost))]

(* urlObj.searchParams.get(name): the decoded value of the first pair of   *)
(* that name, or null.                                                     *)
RECURSIVE SearchParamsGet(_, _)
SearchParamsGet(pairs, name) ==
    IF pairs = << >> THEN Null
    ELSE LET eq == IndexOf(Head(pairs), <<"=">>)
             key == IF eq = 0 THEN Head(pairs) ELSE SubSeq(Head(pairs), 1, eq - 1)
             val == IF eq = 0 THEN << >> ELSE SubSeq(Head(pairs), eq + 1, Len(Head(pairs)))
         IN  IF FormDecode(key) = name THEN FormDecode(val)
             ELSE SearchParamsGet(Tail(pairs), name)

Parsed(value) == [how |-> "return", value |-> value, message |-> "none"]

InvalidUrlFormat == [how |-> "throw", value |-> "none", message |-> "Invalid URL format"]

(* Mutant of TitleOf: the path segment is returned as it is written.       *)
TitleOf_NotDecoded(pathParts) ==
    IF Len(pathParts) >= 3 THEN pathParts[3] ELSE Null

(* pathParts[2] ? decodeURIComponent(pathParts[2]) : null                  *)
TitleOf(pathParts) ==
    IF Len(pathParts) >= 3 THEN decodeURIComponent(pathParts[3]) ELSE Null

(* parseFigmaUrl(url): every throw inside the try becomes                  *)
(* Error('Invalid URL format').                                            *)
parseFigmaUrl(url) ==
    LET urlWithProtocol == IF startsWith(url, http) THEN url
                           ELSE https \o SchemeSeparator \o url
        urlObj == NewURL(urlWithProtocol)
        pathParts == NonEmpty(Split(urlObj.pathname, "/"))
        title == TitleOf(pathParts)
    IN  IF ~urlObj.valid THEN InvalidUrlFormat
        ELSE IF ~includes(urlObj.hostname, figmaCom) THEN InvalidUrlFormat
        ELSE IF title = URIError THEN InvalidUrlFormat
        ELSE Parsed([type |-> IF Len(pathParts) >= 1 THEN pathParts[1] ELSE Undefined,
                     fileId |-> IF Len(pathParts) >= 2 THEN pathParts[2] ELSE Undefined,
                     nodeId |-> SearchParamsGet(NonEmpty(Split(urlObj.search, "&")),
                                                nodeIdParam),
                     title |-> title])

---------------------------------------------------------------------------
(* The URLs parseFigmaUrl is applied to, written from their parts: the     *)
(* scheme or none, the host, the resource type, the file id, the title as  *)
(* written and as decoded, and the query with the node id it names.        *)
Schemes == {<< >>, https \o SchemeSeparator, http \o SchemeSeparator}

Hosts ==
    {[text |-> <<"w", "w", "w", ".", "f", "i", "g", "m", "a", ".", "c", "o", "m">>, figma |-> TRUE],
     [text |-> <<"f", "i", "g", "m", "a", ".", "c", "o", "m">>, figma |-> TRUE],
     [text |-> <<"W", "W", "W", ".", "F", "i", "g", "m", "a", ".", "c", "o", "m">>, figma |-> TRUE],
     [text |-> <<"e", "x", "a", "m", "p", "l", "e", ".", "c", "o", "m">>, figma |-> FALSE],
     [text |-> <<"w", "w", "w", ".", "s", "k", "e", "t", "c", "h", ".", "c", "o", "m">>, figma |-> FALSE]}

ResourceTypes == {<<"f", "i", "l", "e">>, <<"d", "e", "s", "i", "g", "n">>}

FileIdTexts == {<<"a", "b", "c", "1", "2", "3">>, <<"X", "y", "Z", "9">>}

Titles ==
    {[text |-> <<"M", "y", "-", "A", "p", "p">>, decoded |-> <<"M", "y", "-", "A", "p", "p">>],
     [text |-> <<"M", "y", "%", "2", "0", "A", "p", "p">>, decoded |-> <<"M", "y", " ", "A", "p", "p">>],
     [text |-> <<"H", "o", "m", "e", "%", "3", "A", "V", "2">>, decoded |-> <<"H", "o", "m", "e", ":", "V", "2">>]}

Queries ==
    {[text |-> <<"n", "o", "d", "e", "-", "i", "d", "=", "1", "-", "2">>, nodeId |-> <<"1", "-", "2">>],
     [text |-> <<"n", "o", "d", "e", "-", "i", "d", "=", "0", "%", "3", "A", "1">>, nodeId |-> <<"0", ":", "1">>],
     [text |-> <<"t", "=", "a", "b", "&", "n", "o", "d", "e", "-", "i", "d", "=", "7", "+", "8", "&", "p", "=", "f">>, nodeId |-> <<"7", " ", "8">>]}

UrlOf(scheme, host, type, id, title, query) ==
    [text |-> scheme \o host.text \o <<"/">> \o type \o <<"/">> \o id \o <<"/">>
              \o title.text \o <<"?">> \o query.text,
     figma |-> host.figma, type |-> type, id |-> id,
     title |-> title.decoded, nodeId |-> query.nodeId]

Urls ==
    {UrlOf(sc, h, ty, id, ti, q) : sc \in Schemes, h \in Hosts, ty \in ResourceTypes,
                                   id \in FileIdTexts, ti \in Titles, q \in Queries}

(* rgbToHex (bin/index.js) and its inverse.                                *)
HexDigits == <<"0", "1", "2", "3", "4", "5", "6", "7", "8", "9", "a", "b", "c", "d", "e", "f">>

(* n.toString(16) for a non-negative integer.                              *)
RECURSIVE toString16(_)
toString16(n) ==
    IF n < 16 THEN <<HexDigits[n + 1]>>
    ELSE toString16(n \div 16) \o <<HexDigits[(n % 16) + 1]>>

(* Mutant of toHex: one digit is not padded.                               *)
toHex_NoPad(n) == toString16(n)

(* const toHex = (n) => ...: one hex digit is padded with a zero.          *)
toHex(n) ==
    IF Len(toString16(n)) = 1 THEN <<"0">> \o toString16(n) ELSE toString16(n)

rgbToHex(r, g, b) == <<"#">> \o toHex(r) \o toHex(g) \o toHex(b)

(* The value of a hex digit.                                               *)
HexValue(c) == (CHOOSE k \in DOMAIN HexDigits : HexDigits[k] = c) - 1

(* hexToRgbString: the three two-digit pairs after the # as integers.      *)
hexToRgbString(hex) ==
    <<16 * HexValue(hex[2]) + HexValue(hex[3]),
      16 * HexValue(hex[4]) + HexValue(hex[5]),
      16 * HexValue(hex[6]) + HexValue(hex[7])>>

(* Channel values: the ends of the range, one and two hex digits, and the  *)
(* values around the sixteens.                                             *)
Channels == {0, 9, 10, 15, 16, 17, 171, 255}

Colors == {<<r, g, b>> : r \in Channels, g \in Channels, b \in Channels}

(* rgbToHex is applied to the color.                                       *)
RgbToHex ==
    /\ calc.fn = "rgbToHex"
    /\ calc.pc = "call"
    /\ calc' = [calc EXCEPT !.pc = "hex",
                            !.value = rgbToHex(calc.arg[1], calc.arg[2], calc.arg[3])]
    /\ UNCHANGED <<figmaData, run, walk, proc, figma>>

(* hexToRgbString is applied to the hex string.                            *)
HexToRgbString ==
    /\ calc.fn = "rgbToHex"
    /\ calc.pc = "hex"
    /\ calc' = [calc EXCEPT !.pc = "done",
                            !.value = [hex |-> calc.value, rgb |-> hexToRgbString(calc.value)]]
    /\ UNCHANGED <<figmaData, run, walk, proc, figma>>

(* The chunks callAI makes of a frame (pseudo-generator.js 153-190).  A    *)
(* frame is its children, or has no children property; a child is named by *)
(* its id; a chunk is the metadata keys it carries, its children and its   *)
(* childrenRange "a-b of n" as <<a, b, n>>.                                *)
MaxChildren == 5

ChildId(i) == <<"child", i>>

FrameDatas ==
    {[hasChildren |-> FALSE, children |-> << >>]}
    \cup {[hasChildren |-> TRUE, children |-> [i \in 1..n |-> ChildId(i)]] :
            n \in 0..MaxChildren}

MetadataKeys == <<"id", "name", "type", "layoutMode", "size">>

(* chunks.push({id, name, type, layoutMode, size})                         *)
MetadataChunk == [keys |-> MetadataKeys, children |-> << >>, childrenRange |-> << >>]

(* Mutant of ChildrenChunk: the slice takes one child more.                *)
ChildrenChunk_OneMore(children, i) ==
    SubSeq(children, i + 1, Min(i + childrenPerChunk + 1, Len(children)))

(* frameData.children.slice(i, i + chunkSize)                              *)
ChildrenChunk(children, i) ==
    SubSeq(children, i + 1, Min(i + childrenPerChunk, Len(children)))

(* for (let i = 0; i < frameData.children.length; i += chunkSize)          *)
RECURSIVE ChildChunks(_, _)
ChildChunks(children, i) ==
    IF i >= Len(children) THEN << >>
    ELSE <<[keys |-> MetadataKeys \o <<"children", "childrenRange">>,
            children |-> ChildrenChunk(children, i),
            childrenRange |-> <<i + 1, Min(i + childrenPerChunk, Len(children)),
                                Len(children)>>]>>
         \o ChildChunks(children, i + childrenPerChunk)

Chunks(frameData) ==
    <<MetadataChunk>>
    \o (IF frameData.hasChildren THEN ChildChunks(frameData.children, 0) ELSE << >>)

(* The frame is split into its chunks.                                     *)
ChunkFrame ==
    /\ calc.fn = "chunks"
    /\ calc.pc = "call"
    /\ calc' = [calc EXCEPT !.pc = "done", !.value = Chunks(calc.arg)]
    /\ UNCHANGED <<figmaData, run, walk, proc, figma>>

NoCalc == [fn |-> "none", pc |-> "idle", arg |-> << >>, value |-> << >>]

(* parseFigmaUrl is applied to the URL.                                    *)
ParseFigmaUrl ==
    /\ calc.fn = "parseFigmaUrl"
    /\ calc.pc = "call"
    /\ calc' = [calc EXCEPT !.pc = "done", !.value = parseFigmaUrl(calc.arg.text)]
    /\ UNCHANGED <<figmaData, run, walk, proc, figma>>

---------------------------------------------------------------------------
(* The Figma client (utils/api.js): getFigmaFileData, getFigmaImage and    *)
(* getFigmaNodeImages.  Each operation is one fetch and what is made of    *)
(* its response.                                                           *)

MaxInvocations == 2

FileIds == {<<"abc123">>, <<"design", "abc123">>}

NodeIds == {"1:4", "7:7"}

(* fileId.replace('design/', '')                                           *)
CleanFileId(fileId) ==
    IF Len(fileId) > 1 /\ Head(fileId) = "design" THEN Tail(fileId) ELSE fileId

(* What fetch settles with: a response (ok or not, with its status text    *)
(* and JSON body) or a rejection of the fetch itself.                      *)
HttpResponse(ok, statusText, err, images) ==
    [kind |-> "response", ok |-> ok, statusText |-> statusText,
     err |-> err, images |-> images]

NetworkError == [kind |-> "rejected", ok |-> FALSE, statusText |-> "none",
                 err |-> "none", images |-> {}]

HttpResponses ==
    {HttpResponse(TRUE, "OK", "none", images) : images \in SUBSET NodeIds}
    \cup {HttpResponse(FALSE, st, err, {}) :
            st \in {"Not Found", "Forbidden"}, err \in {"none", "Invalid token"}}
    \cup {NetworkError}

FigmaReturned(value) == [how |-> "return", value |-> value, message |-> << >>]

FigmaThrown(message) == [how |-> "throw", value |-> "none", message |-> message]

(* getFigmaFileData after the fetch.                                       *)
FileDataResult(response) ==
    IF response.kind = "rejected" THEN FigmaThrown(<<"fetch failed">>)
    ELSE IF ~response.ok
    THEN FigmaThrown(<<"Failed to fetch Figma file: ", response.statusText>>)
    ELSE FigmaReturned("json")

(* The message of the two image operations for a response that is not ok. *)
FailureMessage(prefix, response) ==
    <<prefix, response.statusText>>
    \o (IF response.err # "none" THEN <<" - ", response.err>> ELSE << >>)

(* Mutant of ImageResult: the image URL is not tested.                     *)
ImageResult_NoUrlCheck(response, nodeId) ==
    IF response.kind = "rejected" THEN FigmaThrown(<<"fetch failed">>)
    ELSE IF ~response.ok
    THEN FigmaThrown(FailureMessage("Failed to get image URL: ", response))
    ELSE FigmaReturned([url |-> IF nodeId \in response.images THEN <<"url", nodeId>>
                                ELSE <<"undefined">>,
                        ref |-> nodeId])

(* getFigmaImage after the fetch.                                          *)
ImageResult(response, nodeId) ==
    IF response.kind = "rejected" THEN FigmaThrown(<<"fetch failed">>)
    ELSE IF ~response.ok
    THEN FigmaThrown(FailureMessage("Failed to get image URL: ", response))
    ELSE IF nodeId \notin response.images
    THEN FigmaThrown(<<"No image URL found for node: ", nodeId>>)
    ELSE FigmaReturned([url |-> <<"url", nodeId>>, ref |-> nodeId])

(* getFigmaNodeImages after the fetch.                                     *)
NodeImagesResult(response) ==
    IF response.kind = "rejected" THEN FigmaThrown(<<"fetch failed">>)
    ELSE IF ~response.ok
    THEN FigmaThrown(FailureMessage("Failed to get nodes: ", response))
    ELSE FigmaReturned("json")

NoFigma ==
    [pc |-> "idle", op |-> "none", fileId |-> << >>, nodeId |-> "none",
     url |-> << >>, requests |-> 0, invocations |-> 0,
     response |-> NetworkError, outcome |-> FigmaReturned("none")]

(* An operation is invoked and issues its fetch.                           *)
Invoke(op, fileId, nodeId, url) ==
    [figma EXCEPT !.pc = "await", !.op = op, !.fileId = fileId, !.nodeId = nodeId,
                  !.url = url, !.requests = 1, !.invocations = @ + 1]

CanInvoke == figma.pc \in {"idle", "settled"} /\ figma.invocations < MaxInvocations

GetFigmaFileData ==
    /\ CanInvoke
    /\ \E fileId \in FileIds :
          figma' = Invoke("getFigmaFileData", fileId, "none", <<"files">> \o fileId)
    /\ UNCHANGED <<figmaData, run, walk, proc, calc>>

GetFigmaImage ==
    /\ CanInvoke
    /\ \E fileId \in FileIds, nodeId \in NodeIds :
          figma' = Invoke("getFigmaImage", fileId, nodeId,
                          <<"images">> \o CleanFileId(fileId) \o <<"ids", nodeId>>)
    /\ UNCHANGED <<figmaData, run, walk, proc, calc>>

GetFigmaNodeImages ==
    /\ CanInvoke
    /\ \E fileId \in FileIds, nodeId \in NodeIds :
          figma' = Invoke("getFigmaNodeImages", fileId, nodeId,
                          <<"files">> \o CleanFileId(fileId) \o <<"nodes", "ids", nodeId>>)
    /\ UNCHANGED <<figmaData, run, walk, proc, calc>>

(* What the operation in progress makes of the response.                   *)
FigmaResult(response) ==
    IF figma.op = "getFigmaFileData" THEN FileDataResult(response)
    ELSE IF figma.op = "getFigmaImage" THEN ImageResult(response, figma.nodeId)
    ELSE NodeImagesResult(response)

(* The fetch settles and the operation returns or throws.                  *)
FetchSettles ==
    /\ figma.pc = "await"
    /\ \E response \in HttpResponses :
          figma' = [figma EXCEPT !.pc = "settled", !.response = response,
                                 !.outcome = FigmaResult(response)]
    /\ UNCHANGED <<figmaData, run, walk, proc, calc>>

(* main: the sections of the report written from the fetched document     *)
(* (canvases and frames, component instances) and from the two maps that   *)
(* generateAllPseudoCode returned, line by line.                           *)
(* Mutant of FrameLines: the layout of a frame is not written.             *)
RECURSIVE FrameLines_NoLayout(_)
FrameLines_NoLayout(frames) ==
    IF frames = << >> THEN << >>
    ELSE <<<<"#####", Head(frames).name>>, <<"- ID:", Head(frames).id>>>>
         \o (IF Head(frames).width # 0 /\ Head(frames).height # 0
             THEN <<<<"- Size:", Head(frames).width, "x", Head(frames).height>>>>
             ELSE << >>)
         \o FrameLines_NoLayout(Tail(frames))

RECURSIVE FrameLines(_)
FrameLines(frames) ==
    IF frames = << >> THEN << >>
    ELSE <<<<"#####", Head(frames).name>>, <<"- ID:", Head(frames).id>>>>
         \o (IF Head(frames).width # 0 /\ Head(frames).height # 0
             THEN <<<<"- Size:", Head(frames).width, "x", Head(frames).height>>>>
             ELSE << >>)
         \o (IF Head(frames).layoutMode # "undefined"
             THEN <<<<"- Layout:", Head(frames).layoutMode>>,
                    <<"- Item Spacing:", Head(frames).itemSpacing>>>>
             ELSE << >>)
         \o FrameLines(Tail(frames))

RECURSIVE CanvasLines(_)
CanvasLines(canvases) ==
    IF canvases = << >> THEN << >>
    ELSE <<<<"###", Head(canvases).name>>, <<"- ID:", Head(canvases).id>>,
           <<"- Type:", Head(canvases).type>>,
           <<"- Total Elements:", Len(Head(canvases).children)>>>>
         \o (IF FramesOf(Head(canvases).children) # << >>
             THEN <<<<"#### Frames", Len(FramesOf(Head(canvases).children))>>>>
                  \o FrameLines(FramesOf(Head(canvases).children))
             ELSE << >>)
         \o CanvasLines(Tail(canvases))

RECURSIVE InstanceLines(_)
InstanceLines(instances) ==
    IF instances = << >> THEN << >>
    ELSE <<<<"- ID:", Head(instances).id>>,
           <<"- Component ID:", Head(instances).componentId>>>>
         \o InstanceLines(Tail(instances))

RECURSIVE PseudoLines(_)
PseudoLines(m) ==
    IF m = << >> THEN << >>
    ELSE <<<<"#", Head(m).value.name>>>> \o Head(m).value.pseudoCode \o <<<<"">>>>
         \o PseudoLines(Tail(m))

Report(s) ==
    <<<<"## Canvases and Frames">>>> \o CanvasLines(figmaData.document.children)
    \o <<<<"## Component Instances">>>> \o InstanceLines(figmaData.instances)
    \o <<<<"## Pseudo Components">>, <<"fence", "xml">>>> \o PseudoLines(s.pseudoComponents)
    \o <<<<"fence">>, <<"## Frame Layouts">>, <<"fence", "xml">>>>
    \o PseudoLines(s.pseudoFrames) \o <<<<"fence">>>>

---------------------------------------------------------------------------
(* The process of src/index.js: the checks of the module top level, then   *)
(* main.  arg is process.argv[2], token says whether FIGMA_ACCESS_TOKEN is *)
(* set, file is the content of .designrules once written, exitCode the     *)
(* code the process ends with (0 unless process.exit sets another).        *)
MainProc(arg, token) ==
    [pc |-> "top", arg |-> arg, token |-> token, result |-> Parsed(Undefined),
     written |-> FALSE, file |-> << >>, exitCode |-> 0, error |-> "none",
     frames |-> << >>]

NoProc == [MainProc(Undefined, FALSE) EXCEPT !.pc = "idle"]

(* process.exit(1)                                                         *)
Exit1(p, error) == [p EXCEPT !.pc = "exited", !.exitCode = 1, !.error = error]

(* The command lines: no URL, an empty one, a Figma URL with and without   *)
(* scheme, a URL of another host, and text that is no URL.                 *)
MainArgs ==
    {Undefined, << >>, <<"h", "t", "t", "p", ":">>}
    \cup {u.text : u \in {v \in Urls :
              /\ v.type = <<"f", "i", "l", "e">>
              /\ v.id = <<"a", "b", "c", "1", "2", "3">>
              /\ v.title = <<"M", "y", " ", "A", "p", "p">>
              /\ v.nodeId = <<"1", "-", "2">>
              /\ \/ startsWith(v.text, <<"w", "w", "w", ".", "f", "i", "g", "m", "a", ".", "c", "o", "m", "/">>)
                 \/ startsWith(v.text, <<"h", "t", "t", "p", "s", ":", "/", "/", "f", "i", "g", "m", "a", ".", "c", "o", "m", "/">>)
                 \/ startsWith(v.text, <<"h", "t", "t", "p", "s", ":", "/", "/", "e", "x", "a", "m", "p", "l", "e", ".", "c", "o", "m", "/">>)}}

(* The module state of the generator when main runs: as loaded, or after   *)
(* a call of the exported initializeAI.                                    *)
Started ==
    Processes
    \cup {[initializeAI(p, model, constructed) EXCEPT !.pc = "ready", !.model = model] :
            p \in Processes, model \in Models, constructed \in BOOLEAN}

(* if (!figmaUrl) ... if (!process.env.FIGMA_ACCESS_TOKEN) ... main()      *)
TopLevel ==
    /\ proc.pc = "top"
    /\ proc' = IF proc.arg = Undefined \/ proc.arg = << >>
               THEN Exit1(proc, "Please provide a Figma URL")
               ELSE IF ~proc.token
               THEN Exit1(proc, "Please set FIGMA_ACCESS_TOKEN")
               ELSE [proc EXCEPT !.pc = "main"]
    /\ UNCHANGED <<figmaData, run, walk, figma, calc>>

(* main up to its first await: parseFigmaUrl, then the fetch of            *)
(* getFigmaFileData is issued; a throw of parseFigmaUrl is caught.         *)
MainParseUrl ==
    /\ proc.pc = "main"
    /\ LET result == parseFigmaUrl(proc.arg) IN
       IF result.how = "throw"
       THEN /\ proc' = Exit1(proc, result.message)
            /\ UNCHANGED figma
       ELSE /\ proc' = [proc EXCEPT !.pc = "awaitFile", !.result = result]
            /\ figma' = Invoke("getFigmaFileData", result.value.fileId, "none",
                               <<"files">> \o result.value.fileId)
    /\ UNCHANGED <<figmaData, run, walk, calc>>

(* Mutant of AfterFetch: a failed fetch does not stop main.                *)
AfterFetch_Continues(p, outcome) == [p EXCEPT !.pc = "generate"]

(* await getFigmaFileData(...): its throw is caught by main.               *)
AfterFetch(p, outcome) ==
    IF outcome.how = "throw" THEN Exit1(p, "Failed to fetch Figma file")
    ELSE [p EXCEPT !.pc = "generate",
                   !.frames = FlatFrames(processCanvases(figmaData.document))]

(* getFigmaFileData has settled: main exits, or processes the document     *)
(* and enters generateAllPseudoCode.                                       *)
MainFetched ==
    /\ proc.pc = "awaitFile"
    /\ figma.pc = "settled"
    /\ proc' = AfterFetch(proc, figma.outcome)
    /\ run' = IF proc'.pc = "generate"
              THEN [run EXCEPT ![1].pc = "components"]
              ELSE run
    /\ UNCHANGED <<figmaData, walk, figma, calc>>

(* generateAllPseudoCode has returned: the report is saved and main ends,  *)
(* or writeFile rejects and main exits.                                    *)
SaveDesignRules ==
    /\ proc.pc = "generate"
    /\ run[1].pc = "done"
    /\ \E saved \in BOOLEAN :
          proc' = IF saved
                  THEN [proc EXCEPT !.pc = "exited", !.written = TRUE,
                                    !.file = Report(run[1])]
                  ELSE Exit1(proc, "writeFile failed")
    /\ UNCHANGED <<figmaData, run, walk, figma, calc>>

---------------------------------------------------------------------------
Init ==
    /\ figmaData \in Docs
    /\ run \in {<<p>> : p \in Processes}
    /\ walk = NoWalk
    /\ proc = NoProc
    /\ figma = NoFigma
    /\ calc = NoCalc

Next ==
    \E r \in Runs :
        \/ InitializeAI(r)
        \/ GenerateAllPseudoCode(r)
        \/ NextComponent(r)
        \/ NextFrame(r)
        \/ CallAI(r)
        \/ RateSleepDone(r)
        \/ ChunkLoop(r)
        \/ ChunkSleepDone(r)
        \/ ChunkResponse(r)
        \/ ChunkRetrySleepDone(r)
        \/ OpenAIResponse(r)
        \/ RetrySleepDone(r)
        \/ ClaudeResponse(r)

Spec == Init /\ [][Next]_vars

(* The single control flow always goes on: an awaited call settles, a      *)
(* timer fires, a loop takes its next iteration.                           *)
FairSpec == Spec /\ WF_vars(Next)

(* generateAllPseudoCode called with any frames argument: the list main    *)
(* builds, the same list backwards, or none.                               *)
FrameArguments(document) ==
    LET listed == FlatFrames(processCanvases(document)) IN
    {listed, [i \in DOMAIN listed |-> listed[Len(listed) + 1 - i]], << >>}

GenInit ==
    /\ figmaData \in Docs \cup {DocNested}
    /\ run \in {<<p>> : p \in Processes}
    /\ walk = NoWalk
    /\ proc \in {[NoProc EXCEPT !.frames = frames] :
                    frames \in FrameArguments(figmaData.document)}
    /\ figma = NoFigma
    /\ calc = NoCalc

GenSpec == GenInit /\ [][Next]_vars

(* main up to generateAllPseudoCode: the two walks of the fetched          *)
(* document.                                                               *)
WalkInit ==
    /\ figmaData \in {[document |-> t] : t \in Trees}
    /\ run = << >>
    /\ walk = [NoWalk EXCEPT !.pc = "tokens", !.stack = <<RootCall>>]
    /\ proc = NoProc
    /\ figma = NoFigma
    /\ calc = NoCalc

WalkNext ==
    \/ ProcessDesignTokens
    \/ StartInstanceWalk
    \/ ProcessComponentInstances
    \/ WalksDone

WalkSpec == WalkInit /\ [][WalkNext]_vars

(* Two runs of the tool over the same fetched document, each with its own  *)
(* command line and environment.  The second is started with --no-ai and   *)
(* an OpenAI key.                                                          *)
PairInit ==
    /\ figmaData \in Docs
    /\ run \in {<<p, q>> : p \in Processes, q \in {d \in Processes : d.noAi /\ d.OPENAI_API_KEY}}
    /\ walk = NoWalk
    /\ proc = NoProc
    /\ figma = NoFigma
    /\ calc = NoCalc

PairSpec == PairInit /\ [][Next]_vars

(* A consumer of the Figma client invoking its operations.                 *)
ClientInit ==
    /\ figmaData = DocEmpty
    /\ run = << >>
    /\ walk = NoWalk
    /\ proc = NoProc
    /\ figma = NoFigma
    /\ calc = NoCalc

ClientNext ==
    \/ GetFigmaFileData
    \/ GetFigmaImage
    \/ GetFigmaNodeImages
    \/ FetchSettles

ClientSpec == ClientInit /\ [][ClientNext]_vars

(* One start of the tool: a command line, an environment, the file that    *)
(* Figma holds.                                                            *)
MainInit ==
    /\ figmaData \in Docs
    /\ run \in {<<p>> : p \in Started}
    /\ walk = NoWalk
    /\ proc \in {MainProc(arg, token) : arg \in MainArgs, token \in BOOLEAN}
    /\ figma = NoFigma
    /\ calc = NoCalc

MainNext ==
    \/ TopLevel
    \/ MainParseUrl
    \/ FetchSettles
    \/ MainFetched
    \/ SaveDesignRules
    \/ \E r \in Runs :
          \/ NextComponent(r)
          \/ NextFrame(r)
          \/ CallAI(r)
          \/ RateSleepDone(r)
          \/ ChunkLoop(r)
          \/ ChunkSleepDone(r)
          \/ ChunkResponse(r)
          \/ ChunkRetrySleepDone(r)
          \/ OpenAIResponse(r)
          \/ RetrySleepDone(r)
          \/ ClaudeResponse(r)

MainSpec == MainInit /\ [][MainNext]_vars

(* The pure functions of the tool, each applied to an input.               *)
CalcInit ==
    /\ figmaData = DocEmpty
    /\ run = << >>
    /\ walk = NoWalk
    /\ proc = NoProc
    /\ figma = NoFigma
    /\ calc \in {[fn |-> "parseFigmaUrl", pc |-> "call", arg |-> u, value |-> << >>] :
                     u \in Urls}
                \cup {[fn |-> "rgbToHex", pc |-> "call", arg |-> c, value |-> << >>] :
                         c \in Colors}
                \cup {[fn |-> "chunks", pc |-> "call", arg |-> f, value |-> << >>] :
                         f \in FrameDatas}

CalcNext ==
    \/ ParseFigmaUrl
    \/ RgbToHex
    \/ HexToRgbString
    \/ ChunkFrame

CalcSpec == CalcInit /\ [][CalcNext]_vars

---------------------------------------------------------------------------
(* Properties.                                                             *)

MapGet(m, k) == m[CHOOSE i \in DOMAIN m : m[i].key = k].value

HasKey(m, k) == \E i \in DOMAIN m : m[i].key = k

(* C1: on the non-chunked OpenAI path callAI makes at most maxRetries      *)
(* calls; when every call was answered 429 it has made exactly maxRetries  *)
(* calls and throws the 429; when it returns, the call that succeeded is   *)
(* the k-th after k - 1 rate-limit errors, k <= maxRetries.                *)
C1_RateLimitCeiling ==
    \A r \in DOMAIN run :
        LET s == run[r]
            l == run[r].last
        IN  /\ s.path = "plain" => s.openaiCalls <= maxRetries
            /\ l.path = "plain" =>
                  /\ l.client = "openai"
                  /\ l.openaiCalls <= maxRetries
                  /\ l.n429 = l.openaiCalls =>
                        l.outcome = Thrown(429) /\ l.openaiCalls = maxRetries
                  /\ l.outcome.how = "return" =>
                        /\ l.openaiCalls = l.n429 + 1
                        /\ l.outcome.completion \in Responses

C1_Witness ==
    \E r \in DOMAIN run :
        /\ run[r].last.path = "plain"
        /\ run[r].last.outcome = Thrown(429)
        /\ run[r].last.openaiCalls = maxRetries

(* C2: in chunked mode no chunk call is made once maxRetries rate-limit    *)
(* errors have been answered.                                              *)
C2_ChunkRetryCeiling ==
    \A r \in DOMAIN run :
        (run[r].path = "chunked" /\ run[r].inFlight = "openai")
            => run[r].n429 < maxRetries

(* C3: a prompt given to callAI with the OpenAI client, whose estimate     *)
(* exceeds maxGPT4Tokens while claudeClient is configured, never reaches   *)
(* OpenAI and goes to Claude.                                              *)
C3_ProviderFallback ==
    \A r \in DOMAIN run :
        LET s == run[r]
            l == run[r].last
        IN  /\ (s.callClient = "openai" /\ ExceedsGPT4(s.art.promptLen) /\ s.claudeClient)
                  => s.openaiCalls = 0
            /\ (l.client = "openai" /\ ExceedsGPT4(l.art.promptLen) /\ l.claudeClient)
                  => l.openaiCalls = 0 /\ l.claudeCalls = 1

(* The artifacts generateAllPseudoCode attempts: the components that have  *)
(* an instance, and the FRAME children of the canvases, in order.          *)
RECURSIVE AttemptedComponents(_)
AttemptedComponents(components) ==
    IF components = << >> THEN << >>
    ELSE (IF InstancesOf(figmaData.instances, Head(components).id) # << >>
          THEN <<Head(components).id>> ELSE << >>)
         \o AttemptedComponents(Tail(components))

RECURSIVE AttemptedFrames(_)
AttemptedFrames(canvases) ==
    IF canvases = << >> THEN << >>
    ELSE [i \in DOMAIN FramesOf(Head(canvases).children) |->
             FramesOf(Head(canvases).children)[i].id]
         \o AttemptedFrames(Tail(canvases))

IsPrefix(a, b) == Len(a) <= Len(b) /\ a = SubSeq(b, 1, Len(a))

(* C4: whatever the providers answer, generateAllPseudoCode returns, with  *)
(* one PseudoResult for every artifact it attempted.                       *)
C4_NoArtifactFailureFatal ==
    <>(\A r \in DOMAIN run :
          /\ run[r].pc = "done"
          /\ MapKeys(run[r].pseudoComponents) = AttemptedComponents(figmaData.components)
          /\ MapKeys(run[r].pseudoFrames) = AttemptedFrames(figmaData.document.children))

(* C5: the result stored for the artifact callAI has just settled for is   *)
(* the payload of the function call when callAI returned one that parses,  *)
(* and otherwise the fallback: the artifact's own name, a heading with     *)
(* that name, and the JSON of its own instance or frame.                   *)
C5_ResponseContract ==
    \A r \in DOMAIN run :
        LET l == run[r].last
            m == IF l.art.kind = "component"
                 THEN run[r].pseudoComponents ELSE run[r].pseudoFrames
        IN  (l.path \in {"plain", "chunked", "claude", "fallback"}
             /\ l.art.kind # "none") =>
                /\ HasKey(m, l.art.id)
                /\ LET res == MapGet(m, l.art.id)
                       own == IF l.art.kind = "component" THEN "instance" ELSE "frame"
                   IN  IF l.outcome.how = "return" /\ l.outcome.completion.kind = "ok"
                       THEN res = l.outcome.completion.payload
                       ELSE /\ res.name = l.art.name
                            /\ Len(res.pseudoCode) = 2
                            /\ res.pseudoCode[1][1] = "#"
                            /\ res.pseudoCode[1][2] = l.art.name
                            /\ res.pseudoCode[2] = Json(own, l.art.data)

C5_Witness ==
    \E r \in DOMAIN run :
        /\ run[r].last.art.kind = "frame"
        /\ run[r].last.outcome.how = "return"
        /\ run[r].last.outcome.completion.kind = "badArgs"

(* The result of an artifact generated without AI: the heading with the    *)
(* artifact's name and the JSON of the instance or of the frame.           *)
IsDeterministicFallback(res, what) ==
    /\ res.pseudoCode[1][1] = "#"
    /\ res.pseudoCode[1][2] = res.name
    /\ \E i \in DOMAIN res.pseudoCode : res.pseudoCode[i][1] = "json"
    /\ \A i \in DOMAIN res.pseudoCode :
          res.pseudoCode[i][1] = "json" => res.pseudoCode[i][2] = what

FirstInstanceId(componentId) == InstancesOf(figmaData.instances, componentId)[1].id

(* C6: under --no-ai, or with no client initialised, no provider is ever   *)
(* called, callAI is never entered, and every stored result is the         *)
(* deterministic fallback of its own artifact.                             *)
C6_AIDisabledTerminal ==
    \A r \in DOMAIN run :
        LET s == run[r] IN
        (s.noAi \/ s.client = "none") =>
            /\ s.called = {}
            /\ s.openaiCalls = 0 /\ s.claudeCalls = 0
            /\ s.pc \in {"start", "ready", "components", "frames", "done"}
            /\ \A i \in DOMAIN s.pseudoComponents :
                  LET e == s.pseudoComponents[i] IN
                  /\ IsDeterministicFallback(e.value, "instance")
                  /\ \E j \in DOMAIN e.value.pseudoCode :
                        e.value.pseudoCode[j] = Json("instance", FirstInstanceId(e.key))
            /\ \A i \in DOMAIN s.pseudoFrames :
                  LET e == s.pseudoFrames[i] IN
                  /\ IsDeterministicFallback(e.value, "frame")
                  /\ e.value.pseudoCode[2] = Json("frame", e.key)

C6_Witness ==
    \E r \in DOMAIN run :
        /\ run[r].noAi /\ run[r].OPENAI_API_KEY /\ run[r].CLAUDE_API_KEY
        /\ run[r].model # "none"
        /\ run[r].pc = "done"
        /\ run[r].pseudoComponents # << >>
        /\ run[r].pseudoFrames # << >>

(* C7: a frame is generated only when every component that has an         *)
(* instance has its result stored; while a component is generated no       *)
(* frame has a result; the frames get their results canvas by canvas in    *)
(* document order.                                                         *)
C7_Sequencing ==
    \A r \in DOMAIN run :
        LET s == run[r]
            componentKeys == MapKeys(s.pseudoComponents)
            frameKeys == MapKeys(s.pseudoFrames)
        IN  /\ IsPrefix(componentKeys, AttemptedComponents(figmaData.components))
            /\ IsPrefix(frameKeys, AttemptedFrames(figmaData.document.children))
            /\ (s.art.kind = "frame" \/ s.pc \in {"frames", "done"} \/ frameKeys # << >>) =>
                  componentKeys = AttemptedComponents(figmaData.components)
            /\ (s.art.kind = "component" \/ s.pc \in {"start", "ready", "components"}) =>
                  frameKeys = << >>
            /\ s.art.kind = "frame" => s.art.id = AttemptedFrames(figmaData.document.children)[Len(frameKeys) + 1]

C7_Witness ==
    \E r \in DOMAIN run :
        /\ run[r].art.kind = "frame"
        /\ run[r].pc = "awaitClaude"
        /\ Len(run[r].pseudoComponents) = 2
        /\ Len(figmaData.components) = 3
        /\ \E i \in DOMAIN run[r].pseudoComponents :
              run[r].pseudoComponents[i].value \in Payloads

(* The entry of a walk for a node id.                                      *)
VisitOf(which, id) ==
    CHOOSE i \in DOMAIN walk.visited :
        walk.visited[i].walk = which /\ walk.visited[i].node.id = id

(* C9: in both walks the root's qualified name is its own name and every   *)
(* other node's qualified name is its parent's qualified name, a slash,    *)
(* and its own name.                                                       *)
C9_QualifiedName ==
    \A i \in DOMAIN walk.visited :
        LET v == walk.visited[i] IN
        IF v.parent = "none"
        THEN v.fullName = v.node.name
        ELSE v.fullName =
                 walk.visited[VisitOf(v.walk, v.parent)].fullName \o Slash \o v.node.name

RECURSIVE CountSolid(_)
CountSolid(fills) ==
    IF fills = << >> THEN 0
    ELSE (IF Head(fills).type = "SOLID" THEN 1 ELSE 0) + CountSolid(Tail(fills))

TokensFor(bucket, id) ==
    {i \in DOMAIN walk.tokens.colors[bucket] : walk.tokens.colors[bucket][i].id = id}

(* C10: a visited RECTANGLE, VECTOR or ELLIPSE has one color token per     *)
(* SOLID fill, all in the bucket of the first rule its own lower-cased    *)
(* name matches; nothing else has a color token; Primary/Fill is in        *)
(* primary and Generic Shape in other, whatever the ancestors are called.  *)
C10_ColorBucketing ==
    \A i \in DOMAIN walk.visited :
        LET v == walk.visited[i]
            own == toLowerCase(v.node.name)
            rule == IF includes(own, primary) THEN "primary"
                    ELSE IF includes(own, secondary) THEN "secondary"
                    ELSE IF includes(own, text) \/ includes(own, typography) THEN "text"
                    ELSE IF includes(own, background) \/ includes(own, bg) THEN "background"
                    ELSE "other"
            shape == v.node.type \in {"RECTANGLE", "VECTOR", "ELLIPSE"}
        IN  v.walk = "tokens" =>
              /\ \A b \in ColorBuckets :
                    Cardinality(TokensFor(b, v.node.id)) =
                        IF shape /\ b = rule THEN CountSolid(v.node.fills) ELSE 0
              /\ (shape /\ v.node.name = PrimaryFill) =>
                    Cardinality(TokensFor("primary", v.node.id)) = CountSolid(v.node.fills)
              /\ (shape /\ v.node.name = GenericShape) =>
                    Cardinality(TokensFor("other", v.node.id)) = CountSolid(v.node.fills)

C10_Witness ==
    /\ walk.pc = "done"
    /\ figmaData.document.children[1].name = PrimaryName
    /\ \E i \in DOMAIN walk.tokens.colors["primary"] :
          /\ walk.tokens.colors["primary"][i].id = "1:1"
          /\ walk.tokens.colors["primary"][i].fill = 3
    /\ \E i \in DOMAIN walk.visited :
          /\ walk.visited[i].node.id = "1:1"
          /\ walk.visited[i].node.name = SecondaryPrimary
    /\ \E i \in DOMAIN walk.tokens.colors["other"] :
          walk.tokens.colors["other"][i].id = "1:2"

(* Where a run is in generateAllPseudoCode.                                *)
Progress(s) ==
    <<IF s.pc \in {"start", "ready"} THEN "start" ELSE s.pc, s.ci, s.cv, s.fr>>

InputDisabled(s) == s.noAi \/ s.client = "none"

TypographyBuckets == {HeadingKeys[i] : i \in DOMAIN HeadingKeys} \cup {"body", "other"}

(* The list of a typography bucket: headings.h1 .. headings.h6, body,      *)
(* other.                                                                  *)
TypographyList(bucket) ==
    IF bucket = "body" THEN walk.tokens.typography.body
    ELSE IF bucket = "other" THEN walk.tokens.typography.other
    ELSE walk.tokens.typography.headings[bucket]

TextStylesFor(bucket, id) ==
    {i \in DOMAIN TypographyList(bucket) : TypographyList(bucket)[i].id = id}

(* C11: a visited TEXT node is filed by its own lower-cased name: under    *)
(* headings.h<d> of the first h[1-6] match when the name contains heading  *)
(* or matches h[1-6] (in no bucket when there is no such match), else      *)
(* under body for body, text or paragraph, else under other; never in two  *)
(* buckets; other node types have no typography entry.  Heading H2 is in   *)
(* headings.h2, H9 in other, Heading in no bucket.                         *)
C11_HeadingClassification ==
    \A i \in DOMAIN walk.visited :
        LET v == walk.visited[i]
            own == toLowerCase(v.node.name)
            hits == {k \in 1..(Len(own) - 1) : own[k] = "h" /\ own[k + 1] \in HeadingDigits}
            first == CHOOSE k \in hits : \A n \in hits : k <= n
            asHeading == includes(own, heading) \/ hits # {}
            expected ==
                IF v.node.type # "TEXT" THEN {}
                ELSE IF asHeading
                     THEN {HeadingKeys[d] : d \in {d \in 1..6 :
                              hits # {} /\ HeadingDigitList[d] = own[first + 1]}}
                ELSE IF includes(own, body) \/ includes(own, text) \/ includes(own, paragraph)
                     THEN {"body"}
                ELSE {"other"}
        IN  v.walk = "tokens" =>
              /\ \A b \in TypographyBuckets :
                    Cardinality(TextStylesFor(b, v.node.id)) = IF b \in expected THEN 1 ELSE 0
              /\ Cardinality({b \in TypographyBuckets : TextStylesFor(b, v.node.id) # {}}) <= 1
              /\ v.node.type = "TEXT" =>
                    /\ v.node.name = HeadingH2 => TextStylesFor("h2", v.node.id) # {}
                    /\ v.node.name = H9 => TextStylesFor("other", v.node.id) # {}
                    /\ v.node.name = H4H2 => TextStylesFor("h4", v.node.id) # {}
                    /\ v.node.name = HeadingName =>
                          \A b \in TypographyBuckets : TextStylesFor(b, v.node.id) = {}

C11_Witness ==
    /\ walk.pc = "done"
    /\ \E i \in DOMAIN walk.visited :
          /\ walk.visited[i].node.type = "TEXT"
          /\ walk.visited[i].node.name = HeadingH2
          /\ walk.visited[i].fullName # HeadingH2
          /\ TextStylesFor("h2", walk.visited[i].node.id) # {}

(* The line numbers of the manifest that start a component.                *)
KeyLines(yaml) == {i \in DOMAIN yaml : yaml[i][1] = "key:"}

IsInstanceLine(line) == line[1] = "- id:"

(* The instance ids the manifest lists under the component with this id.   *)
ListedUnder(yaml, id) ==
    LET k == CHOOSE i \in KeyLines(yaml) : yaml[i][2] = id
        later == {i \in KeyLines(yaml) : i > k} \cup {Len(yaml) + 1}
        next == CHOOSE i \in later : \A j \in later : i <= j
        lines == SelectSeq(SubSeq(yaml, k + 1, next - 1), IsInstanceLine)
    IN  [i \in DOMAIN lines |-> lines[i][2]]

(* The ids of the walked instances of a component, in walk order.          *)
RECURSIVE WalkedInstancesOf(_, _)
WalkedInstancesOf(instances, id) ==
    IF instances = << >> THEN << >>
    ELSE (IF Head(instances).componentId = id THEN <<Head(instances).id>> ELSE << >>)
         \o WalkedInstancesOf(Tail(instances), id)

(* C12: the manifest has one entry per component; under a component it     *)
(* lists exactly the instances whose componentId is that component's id,   *)
(* in the order of the instance walk; an instance of no component is on    *)
(* no line.                                                                *)
C12_ComponentInstanceLinking ==
    walk.pc = "done" =>
        LET components == walk.tokens.components IN
        /\ {walk.yaml[i][2] : i \in KeyLines(walk.yaml)} =
               {components[i].id : i \in DOMAIN components}
        /\ Cardinality(KeyLines(walk.yaml)) = Len(components)
        /\ \A c \in DOMAIN components :
              ListedUnder(walk.yaml, components[c].id) =
                  WalkedInstancesOf(walk.instances, components[c].id)
        /\ \A i \in DOMAIN walk.instances :
              (\A c \in DOMAIN components : components[c].id # walk.instances[i].componentId)
                  => \A l \in DOMAIN walk.yaml :
                        ~(IsInstanceLine(walk.yaml[l]) /\ walk.yaml[l][2] = walk.instances[i].id)

C12_Witness ==
    /\ walk.pc = "done"
    /\ Len(walk.tokens.components) = 2
    /\ ListedUnder(walk.yaml, "1:1") = <<"1:3", "1:7">>
    /\ ListedUnder(walk.yaml, "1:8") = <<"1:6">>
    /\ \E i \in DOMAIN walk.instances :
          walk.instances[i].id = "1:9" /\ walk.instances[i].componentId = "9:9"

(* The node ids of a tree in pre-order, depth first, children in array     *)
(* order.                                                                  *)
RECURSIVE PreOrder(_)
RECURSIVE PreOrderAll(_)
PreOrder(node) == <<node.id>> \o PreOrderAll(node.children)

PreOrderAll(children) ==
    IF children = << >> THEN << >>
    ELSE PreOrder(Head(children)) \o PreOrderAll(Tail(children))

Position(order, id) == CHOOSE i \in DOMAIN order : order[i] = id

(* The lists of the TokenSet with, for each token, its node and the index  *)
(* of the fill or effect it was made from.                                 *)
TokenLists ==
    {[i \in DOMAIN TypographyList(b) |-> <<TypographyList(b)[i].id, 0>>] : b \in TypographyBuckets}
    \cup {[i \in DOMAIN walk.tokens.colors[b] |->
             <<walk.tokens.colors[b][i].id, walk.tokens.colors[b][i].fill>>] : b \in ColorBuckets}
    \cup {[i \in DOMAIN walk.tokens.effects[b] |->
             <<walk.tokens.effects[b][i].id, walk.tokens.effects[b][i].effect>>] : b \in EffectBuckets}
    \cup {[i \in DOMAIN walk.tokens.spacing |-> <<walk.tokens.spacing[i].id, 0>>],
          [i \in DOMAIN walk.tokens.components |-> <<walk.tokens.components[i].id, 0>>],
          [i \in DOMAIN walk.tokens.styles |-> <<walk.tokens.styles[i].id, 0>>]}

(* C13: in every list of the TokenSet a token comes before another when   *)
(* its node comes first in the pre-order of the document, and the tokens   *)
(* of one node are in the order of its fills or effects.                   *)
C13_TokenInsertionOrder ==
    walk.pc # "idle" =>
        LET order == PreOrder(figmaData.document) IN
        \A list \in TokenLists :
            \A i \in DOMAIN list : \A j \in DOMAIN list :
                i < j =>
                    \/ Position(order, list[i][1]) < Position(order, list[j][1])
                    \/ list[i][1] = list[j][1] /\ list[i][2] < list[j][2]

C13_Witness ==
    /\ walk.pc = "done"
    /\ [i \in DOMAIN walk.tokens.colors["other"] |->
           <<walk.tokens.colors["other"][i].id, walk.tokens.colors["other"][i].fill>>]
         = <<<<"1:1", 1>>, <<"1:1", 3>>, <<"1:2", 1>>, <<"1:4", 1>>, <<"1:5", 1>>>>
    /\ [i \in DOMAIN walk.tokens.effects["shadows"] |-> walk.tokens.effects["shadows"][i].id]
         = <<"1:1", "1:1", "1:2">>
    /\ [i \in DOMAIN walk.tokens.styles |-> walk.tokens.styles[i].id] = <<"1:1", "1:2", "1:5">>

(* C15: an invocation of a Figma client operation issues one request and  *)
(* no second one; a response that is not ok makes it throw an error whose  *)
(* message carries the status text; getFigmaImage also throws when the     *)
(* images of the response have no entry for the requested node.            *)
C15_FigmaClientContract ==
    /\ figma.requests <= 1
    /\ figma.pc \in {"await", "settled"} => figma.requests = 1
    /\ figma.pc = "settled" =>
          /\ (figma.response.kind = "response" /\ ~figma.response.ok) =>
                /\ figma.outcome.how = "throw"
                /\ \E i \in DOMAIN figma.outcome.message :
                      figma.outcome.message[i] = figma.response.statusText
          /\ (figma.op = "getFigmaImage" /\ figma.nodeId \notin figma.response.images) =>
                figma.outcome.how = "throw"
          /\ figma.outcome.how = "return" => figma.response.ok

C15_Witness ==
    /\ figma.pc = "settled"
    /\ figma.op = "getFigmaImage"
    /\ figma.invocations = 2
    /\ figma.response.ok
    /\ figma.response.images = {"7:7"}
    /\ figma.nodeId = "1:4"
    /\ figma.outcome.how = "throw"

C18_HexRoundTrip ==
    /\ (calc.fn = "rgbToHex" /\ calc.pc = "hex") =>
          /\ Len(calc.value) = 7
          /\ calc.value[1] = "#"
          /\ \A i \in 2..7 : \E k \in DOMAIN HexDigits : HexDigits[k] = calc.value[i]
          /\ \A c \in Colors : rgbToHex(c[1], c[2], c[3]) = calc.value => c = calc.arg
    /\ (calc.fn = "rgbToHex" /\ calc.pc = "done") => calc.value.rgb = calc.arg

C18_Witness ==
    /\ calc.fn = "rgbToHex"
    /\ calc.pc = "done"
    /\ calc.arg = <<9, 171, 16>>
    /\ calc.value.hex = <<"#", "0", "9", "a", "b", "1", "0">>
    /\ calc.value.rgb = <<9, 171, 16>>

(* C19: a callAI invocation on the Claude path that was answered with a    *)
(* rate-limit error and threw has called Claude maxRetries times: the 429  *)
(* is retried up to the ceiling before the error reaches the caller, as it *)
(* is on the OpenAI path.                                                  *)
C19_ClaudeRateLimitRetried ==
    \A r \in DOMAIN run :
        LET l == run[r].last
        IN  (l.path \in {"claude", "fallback"} /\ l.n429 > 0 /\ l.outcome.how = "throw")
                => /\ l.claudeCalls = maxRetries
                   /\ l.outcome = Thrown(429)

(* C20: the delay of a retry sleep is min(baseDelay * 2^attempt, 120000),  *)
(* with the base doubled for a chunk retry; it does not exceed 120000 and  *)
(* is not below the delay of any earlier attempt.                          *)
C20_BackoffDelay ==
    \A r \in DOMAIN run :
        LET s == run[r]
            base == IF s.pc = "sleepChunkRetry" THEN baseDelay * 2 ELSE baseDelay
        IN  s.pc \in {"sleepRetry", "sleepChunkRetry"} =>
                /\ s.sleepMs = Min(base * Pow2(s.attempt), 120000)
                /\ s.sleepMs <= 120000
                /\ \A a \in 0..(s.attempt - 1) : exponentialBackoff(a, base) <= s.sleepMs

C20_Witness ==
    \E r \in DOMAIN run :
        /\ run[r].pc = "sleepChunkRetry"
        /\ run[r].attempt > maxRetries
        /\ baseDelay * 2 * Pow2(run[r].attempt) > 120000
        /\ run[r].sleepMs = 120000

C16_ScenarioReport ==
    (figmaData = DocScenario /\ proc.written /\ AIDisabled(run[1])) =>
        proc.file =
            <<<<"## Canvases and Frames">>,
              <<"###", "Related Posts Card">>,
              <<"- ID:", "0:1">>,
              <<"- Type:", "CANVAS">>,
              <<"- Total Elements:", 1>>,
              <<"#### Frames", 1>>,
              <<"#####", "Related Posts Card">>,
              <<"- ID:", "1:4">>,
              <<"- Size:", 297, "x", 332>>,
              <<"- Layout:", "VERTICAL">>,
              <<"- Item Spacing:", "undefined">>,
              <<"## Component Instances">>,
              <<"## Pseudo Components">>,
              <<"fence", "xml">>,
              <<"fence">>,
              <<"## Frame Layouts">>,
              <<"fence", "xml">>,
              <<"#", "Related Posts Card">>,
              <<"#", "Related Posts Card", "(Canvas:", "Related Posts Card", ")">>,
              Json("frame", "1:4"),
              <<"">>,
              <<"fence">>>>

C16_Witness ==
    /\ figmaData = DocScenario
    /\ proc.written
    /\ proc.exitCode = 0
    /\ run[1].noAi
    /\ run[1].OPENAI_API_KEY
    /\ run[1].pc = "done"
    /\ Len(proc.file) = 22

(* C21: a frame with n children is split into 1 + ceil(n/2) chunks: the   *)
(* first carries the metadata only, chunk k >= 1 carries children          *)
(* 2(k-1)+1 .. min(2k, n) with that range of n; every child is in exactly  *)
(* one chunk, no chunk has more than 2 children, and the chunks in order   *)
(* give the children in order.                                             *)
C21_ChunkPartition ==
    (calc.fn = "chunks" /\ calc.pc = "done") =>
        LET children == calc.arg.children
            n == Len(children)
            chunks == calc.value
        IN  /\ Len(chunks) = 1 + (n + 1) \div 2
            /\ Len(chunks) = ChunkCount([nChildren |-> n])
            /\ chunks[1] = [keys |-> <<"id", "name", "type", "layoutMode", "size">>,
                            children |-> << >>, childrenRange |-> << >>]
            /\ \A k \in 1..(Len(chunks) - 1) :
                  LET a == 2 * (k - 1) + 1
                      b == IF 2 * k < n THEN 2 * k ELSE n
                  IN  /\ chunks[k + 1].children = [j \in 1..(b - a + 1) |-> children[a + j - 1]]
                      /\ chunks[k + 1].childrenRange = <<a, b, n>>
                      /\ Len(chunks[k + 1].children) \in {1, 2}
            /\ \A i \in 1..n :
                  Cardinality({<<k, j>> \in (1..Len(chunks)) \X (1..n) :
                                  /\ j \in DOMAIN chunks[k].children
                                  /\ chunks[k].children[j] = children[i]}) = 1
            /\ Flatten([k \in DOMAIN chunks |-> chunks[k].children]) = children

C21_Witness ==
    /\ calc.fn = "chunks"
    /\ calc.pc = "done"
    /\ Len(calc.arg.children) = 5
    /\ Len(calc.value) = 4
    /\ calc.value[4].children = <<ChildId(5)>>
    /\ calc.value[4].childrenRange = <<5, 5, 5>>

(* C22: in chunked mode a chunk is sent only when no call is in flight,    *)
(* and it is the chunk after the last one answered successfully; the index *)
(* advances by one exactly when the chunk call in flight is answered       *)
(* without error, which appends that response, and otherwise index and     *)
(* responses stay; when callAI returns there is one response per chunk and *)
(* the result is the frame's name with the bodies joined in chunk order.   *)
C22_ChunkReassembly ==
    [][\A r \in DOMAIN run :
          LET s == run[r]
              t == run'[r]
          IN  /\ (t.pc = "awaitChunk" /\ s.pc # "awaitChunk") =>
                    /\ s.inFlight = "none"
                    /\ t.currentIndex = s.currentIndex
                    /\ t.currentIndex = Len(t.results)
                    /\ t.currentIndex < ChunkCount(t.art)
              /\ (s.path = "chunked" /\ t.path = "chunked") =>
                    /\ t.currentIndex \in {s.currentIndex, s.currentIndex + 1}
                    /\ t.currentIndex = s.currentIndex => t.results = s.results
                    /\ t.currentIndex = s.currentIndex + 1 =>
                          /\ s.pc = "awaitChunk"
                          /\ Len(t.results) = Len(s.results) + 1
                          /\ SubSeq(t.results, 1, Len(s.results)) = s.results
                          /\ t.results[Len(t.results)].kind # "error"
                    /\ (s.pc = "awaitChunk" /\ t.pc = "sleepChunkRetry") =>
                          t.currentIndex = s.currentIndex
              /\ (s.path = "chunked" /\ t.last.path = "chunked"
                    /\ t.last.outcome.how = "return") =>
                    /\ Len(s.results) = ChunkCount(s.art)
                    /\ s.currentIndex = ChunkCount(s.art)
                    /\ t.last.outcome.completion.payload.name = s.art.name
                    /\ t.last.outcome.completion.payload.pseudoCode =
                          Flatten([i \in 1..Len(s.results) |-> s.results[i].payload.pseudoCode])
      ]_vars

C22_Witness ==
    \E r \in DOMAIN run :
        /\ run[r].last.path = "chunked"
        /\ run[r].last.outcome.how = "return"
        /\ run[r].last.n429 >= 1
        /\ run[r].last.art.nChildren = 3
        /\ run[r].last.outcome.completion.payload.pseudoCode = <<<<"<A/>">>, <<"<B/>">>, <<"<A/>">>>>

(* The control points inside a callAI invocation.                          *)
InCallAI(s) ==
    s.pc \in {"callAI", "sleepRate", "chunkLoop", "sleepChunk", "awaitChunk",
              "sleepChunkRetry", "awaitOpenAI", "sleepRetry", "awaitClaude"}

(* The entries of map m for keys other than k.                             *)
RECURSIVE Others(_, _)
Others(m, k) ==
    IF m = << >> THEN << >>
    ELSE (IF Head(m).key = k THEN << >> ELSE <<Head(m)>>) \o Others(Tail(m), k)

(* C23: every callAI invocation starts with attempt 0, no calls counted,   *)
(* no responses and no sleep, whatever the invocation before did; while it *)
(* runs the results of other artifacts, the loop positions and its own     *)
(* artifact do not change; when it settles, the result stored for its      *)
(* artifact is made of its own outcome alone and every other result is     *)
(* left as it was; a settled non-chunked OpenAI invocation has made one    *)
(* call more than it has retried.                                          *)
C23_ArtifactIndependence ==
    [][\A r \in DOMAIN run :
          LET s == run[r]
              t == run'[r]
              own == IF t.last.outcome.how = "return"
                        /\ t.last.outcome.completion.kind = "ok"
                     THEN t.last.outcome.completion.payload
                     ELSE Fallback(s.art)
          IN  /\ (~InCallAI(s) /\ InCallAI(t)) =>
                    /\ t.attempt = 0
                    /\ t.openaiCalls = 0 /\ t.claudeCalls = 0 /\ t.n429 = 0
                    /\ t.results = << >> /\ t.currentIndex = 0
                    /\ t.sleepMs = 0 /\ t.inFlight = "none"
                    /\ t.pseudoComponents = s.pseudoComponents
                    /\ t.pseudoFrames = s.pseudoFrames
              /\ (InCallAI(s) /\ InCallAI(t)) =>
                    /\ t.art = s.art
                    /\ t.pseudoComponents = s.pseudoComponents
                    /\ t.pseudoFrames = s.pseudoFrames
                    /\ <<t.ci, t.cv, t.fr>> = <<s.ci, s.cv, s.fr>>
              /\ (InCallAI(s) /\ ~InCallAI(t)) =>
                    /\ t.last.art = s.art
                    /\ t.last.attempt = s.attempt
                    /\ IF s.art.kind = "component"
                       THEN /\ MapGet(t.pseudoComponents, s.art.id) = own
                            /\ Others(t.pseudoComponents, s.art.id)
                                  = Others(s.pseudoComponents, s.art.id)
                            /\ t.pseudoFrames = s.pseudoFrames
                       ELSE /\ MapGet(t.pseudoFrames, s.art.id) = own
                            /\ Others(t.pseudoFrames, s.art.id)
                                  = Others(s.pseudoFrames, s.art.id)
                            /\ t.pseudoComponents = s.pseudoComponents
                    /\ t.last.path = "plain" => t.last.openaiCalls = t.last.attempt + 1
      ]_vars

C23_Witness ==
    \E r \in DOMAIN run :
        /\ run[r].last.art.id = "c2"
        /\ run[r].last.path = "plain"
        /\ run[r].last.outcome = Thrown(429)
        /\ run[r].last.attempt = maxRetries - 1
        /\ run[r].last.openaiCalls = maxRetries
        /\ Len(run[r].pseudoComponents) = 2
        /\ run[r].pseudoComponents[1].value = FallbackComponent("Button", "i1")

(* C24: a provider call is in flight exactly at the three awaits of a     *)
(* call, and then no sleep is pending; a call is started only on a step    *)
(* from a state with no call in flight and no longer asleep, and the       *)
(* control flow then waits for its answer; a sleep is started only with no *)
(* call in flight; outside callAI nothing is in flight or asleep.          *)
C24_SequentialControlFlow ==
    [][\A r \in DOMAIN run :
          LET s == run[r]
              t == run'[r]
              Awaiting(x) == x.pc \in {"awaitOpenAI", "awaitChunk", "awaitClaude"}
              Sleeping(x) == x.pc \in {"sleepRate", "sleepChunk", "sleepRetry",
                                        "sleepChunkRetry"}
          IN  /\ (s.inFlight # "none") <=> Awaiting(s)
              /\ (t.inFlight # "none") <=> Awaiting(t)
              /\ s.sleepMs > 0 => Sleeping(s)
              /\ Sleeping(s) => s.inFlight = "none"
              /\ ~InCallAI(s) => s.inFlight = "none" /\ s.sleepMs = 0
              /\ (t.openaiCalls > s.openaiCalls \/ t.claudeCalls > s.claudeCalls
                    \/ (Awaiting(t) /\ ~Awaiting(s))) =>
                    /\ s.inFlight = "none"
                    /\ Awaiting(t)
                    /\ t.sleepMs = 0
              /\ Awaiting(s) => t.inFlight = "none" /\ ~Awaiting(t)
              /\ (Sleeping(t) /\ t.sleepMs > 0 /\ ~Sleeping(s)) => t.inFlight = "none"
      ]_vars

C24_Witness ==
    \E r \in DOMAIN run :
        /\ run[r].pc = "awaitChunk"
        /\ run[r].inFlight = "openai"
        /\ run[r].sleepMs = 0
        /\ run[r].currentIndex = 1
        /\ run[r].n429 >= 1
        /\ run[r].openaiCalls >= 3

(* The effect tokens of bucket b made from effect i of node id.            *)
EffectTokensFor(b, id, i) ==
    {k \in DOMAIN walk.tokens.effects[b] :
        walk.tokens.effects[b][k].id = id /\ walk.tokens.effects[b][k].effect = i}

(* C25: every effect of a visited RECTANGLE, VECTOR or ELLIPSE node has    *)
(* one token, in shadows for DROP_SHADOW and INNER_SHADOW, in blurs for    *)
(* LAYER_BLUR and BACKGROUND_BLUR, in other for any other type, whatever   *)
(* the node's fills and name; a node of another type has no effect token.  *)
C25_EffectBucketing ==
    \A n \in DOMAIN walk.visited :
        LET v == walk.visited[n]
            shape == v.node.type \in {"RECTANGLE", "VECTOR", "ELLIPSE"}
        IN  v.walk = "tokens" =>
              /\ \A i \in DOMAIN v.node.effects :
                    LET type == v.node.effects[i].type
                        expected == IF type \in {"DROP_SHADOW", "INNER_SHADOW"} THEN "shadows"
                                    ELSE IF type \in {"LAYER_BLUR", "BACKGROUND_BLUR"} THEN "blurs"
                                    ELSE "other"
                    IN  \A b \in {"shadows", "blurs", "other"} :
                           /\ Cardinality(EffectTokensFor(b, v.node.id, i))
                                 = IF shape /\ b = expected THEN 1 ELSE 0
                           /\ \A k \in EffectTokensFor(b, v.node.id, i) :
                                 /\ walk.tokens.effects[b][k].type = type
                                 /\ walk.tokens.effects[b][k].name = v.fullName
              /\ \A b \in {"shadows", "blurs", "other"} :
                    \A k \in DOMAIN walk.tokens.effects[b] :
                        walk.tokens.effects[b][k].id = v.node.id =>
                            walk.tokens.effects[b][k].effect \in DOMAIN v.node.effects

C25_Witness ==
    /\ walk.pc = "done"
    /\ \E n \in DOMAIN walk.visited :
          /\ walk.visited[n].node.id = "1:1"
          /\ walk.visited[n].node.type = "ELLIPSE"
          /\ walk.visited[n].node.fills = << >>
          /\ walk.visited[n].node.name = TextBg
    /\ [k \in DOMAIN walk.tokens.effects["other"] |->
           <<walk.tokens.effects["other"][k].id, walk.tokens.effects["other"][k].effect>>]
         = <<<<"1:1", 1>>, <<"1:1", 4>>>>
    /\ [k \in DOMAIN walk.tokens.effects["shadows"] |->
           <<walk.tokens.effects["shadows"][k].id, walk.tokens.effects["shadows"][k].effect>>]
         = <<<<"1:1", 2>>, <<"1:2", 1>>>>
    /\ [k \in DOMAIN walk.tokens.effects["blurs"] |->
           <<walk.tokens.effects["blurs"][k].id, walk.tokens.effects["blurs"][k].effect>>]
         = <<<<"1:1", 3>>, <<"1:5", 1>>>>

(* C26: whenever callAI tests its loop condition the condition holds, and  *)
(* a settled invocation has returned a response or thrown: it has not run  *)
(* out of the loop and resolved to undefined.                              *)
C26_NeverUndefined ==
    \A r \in DOMAIN run :
        LET s == run[r]
            l == run[r].last
        IN  /\ s.pc = "callAI" => s.attempt < maxRetries
            /\ s.pc = "sleepRetry" => s.attempt < maxRetries
            /\ (l.art.kind # "none" /\ l.path # "disabled") =>
                  /\ l.outcome.how \in {"return", "throw"}
                  /\ l.outcome.how = "return" => l.outcome.completion.kind # "none"

C26_Witness ==
    \E r \in DOMAIN run :
        /\ run[r].last.path = "chunked"
        /\ run[r].last.attempt > maxRetries
        /\ run[r].last.outcome = Thrown(500)

(* C27: the step that answers a provider call leads to a retry sleep only *)
(* when the answer was a 429; an answer that is an error of another status  *)
(* settles callAI on that very step with a throw, on the chunked and the   *)
(* non-chunked path, and the calls counted for the artifact are those made *)
(* up to the failed call.                                                  *)
C27_OtherErrorsNotRetried ==
    [][\A r \in DOMAIN run :
          LET s == run[r]
              t == run'[r]
              answered == s.pc \in {"awaitOpenAI", "awaitChunk", "awaitClaude"} /\ t # s
              rateLimited == t.n429 > s.n429 \/ t.last.n429 > s.n429
          IN  /\ (answered /\ t.pc \in {"sleepRetry", "sleepChunkRetry", "callAI",
                                        "sleepRate", "sleepChunk"}) =>
                    rateLimited \/ s.n429 = MaxCalls
              /\ (answered /\ ~rateLimited /\ s.n429 < MaxCalls) =>
                    \/ /\ s.pc = "awaitChunk"
                       /\ t.pc = "chunkLoop"
                       /\ Len(t.results) = Len(s.results) + 1
                    \/ /\ ~InCallAI(t)
                       /\ t.last.openaiCalls = s.openaiCalls
                       /\ t.last.claudeCalls = s.claudeCalls
              /\ (answered /\ ~InCallAI(t) /\ t.last.outcome.how = "throw"
                    /\ s.pc # "awaitClaude") =>
                    /\ t.last.outcome.status \in {429, 500}
                    /\ t.last.outcome.status = 500 => ~rateLimited
                    /\ t.last.outcome.status = 429 =>
                          s.pc = "awaitOpenAI" /\ s.attempt = maxRetries - 1
      ]_vars

C27_Witness ==
    \E r \in DOMAIN run :
        /\ run[r].last.path = "chunked"
        /\ run[r].last.outcome = Thrown(500)
        /\ run[r].last.n429 = 0
        /\ run[r].last.openaiCalls = 2
        /\ run[r].last.art.nChildren = 3

(* C28: while callAI works on a frame with claudeClient set, it was given  *)
(* the Claude client, has called OpenAI not once, is on no path but the    *)
(* Claude one and is at none of the control points of the OpenAI path; a   *)
(* settled frame invocation with claudeClient set made its one call to     *)
(* Claude on the Claude path; the chunked path is only ever taken without  *)
(* claudeClient, and the size-based fallback only for a component.         *)
C28_FramesUseClaude ==
    \A r \in DOMAIN run :
        LET s == run[r]
            l == run[r].last
        IN  /\ (InCallAI(s) /\ s.art.kind = "frame" /\ s.claudeClient) =>
                  /\ s.callClient = "claude"
                  /\ s.openaiCalls = 0
                  /\ s.path \in {"none", "claude"}
                  /\ s.pc \in {"callAI", "awaitClaude"}
                  /\ s.inFlight \in {"none", "claude"}
            /\ (l.art.kind = "frame" /\ l.claudeClient /\ l.path # "disabled") =>
                  /\ l.client = "claude"
                  /\ l.path = "claude"
                  /\ l.openaiCalls = 0
                  /\ l.claudeCalls = 1
            /\ s.path = "chunked" => ~s.claudeClient /\ s.art.kind = "frame"
            /\ l.path = "chunked" => ~l.claudeClient /\ l.art.kind = "frame"
            /\ s.path = "fallback" => s.art.kind = "component"
            /\ l.path = "fallback" => l.art.kind = "component"

C28_Witness ==
    \E r \in DOMAIN run :
        /\ run[r].model = "gpt4"
        /\ run[r].client = "openai"
        /\ run[r].claudeClient
        /\ run[r].last.art.kind = "frame"
        /\ run[r].last.art.dataLen > chunkSize
        /\ ExceedsGPT4(run[r].last.art.promptLen)
        /\ run[r].last.path = "claude"
        /\ run[r].last.claudeCalls = 1
        /\ run[r].last.openaiCalls = 0

(* The positions in the instance list of the instances of a component.    *)
InstancePositions(componentId) ==
    {k \in DOMAIN figmaData.instances : figmaData.instances[k].componentId = componentId}

(* C29: a component passed by the loop has a result exactly when some      *)
(* instance names it, a component not yet reached has none, and there is   *)
(* one result per such component, in component order; a generation in      *)
(* progress is for the component at the loop position, which has an        *)
(* instance and no result yet, and works on the first instance that names  *)
(* it; a stored fallback shows that instance; a provider has been called   *)
(* only if a generation is in progress or has stored a result.             *)
C29_ComponentsWithInstances ==
    \A r \in DOMAIN run :
        LET s == run[r]
            components == figmaData.components
            passed(i) == s.pc \in {"frames", "done"} \/ (s.pc # "start" /\ s.pc # "ready" /\ i < s.ci)
            first(id) == CHOOSE k \in InstancePositions(id) :
                             \A j \in InstancePositions(id) : k <= j
            expected == {i \in DOMAIN components :
                            passed(i) /\ InstancePositions(components[i].id) # {}}
        IN  /\ \A i \in DOMAIN components :
                  HasKey(s.pseudoComponents, components[i].id) <=> i \in expected
            /\ Len(s.pseudoComponents) = Cardinality(expected)
            /\ \A a \in DOMAIN s.pseudoComponents : \A b \in DOMAIN s.pseudoComponents :
                  a < b => \E i \in expected : \E j \in expected :
                              /\ i < j
                              /\ components[i].id = s.pseudoComponents[a].key
                              /\ components[j].id = s.pseudoComponents[b].key
            /\ (InCallAI(s) /\ s.art.kind = "component") =>
                  /\ s.ci \in DOMAIN components
                  /\ s.art.id = components[s.ci].id
                  /\ InstancePositions(s.art.id) # {}
                  /\ s.art.data = figmaData.instances[first(s.art.id)].id
                  /\ ~HasKey(s.pseudoComponents, s.art.id)
            /\ (s.last.art.kind = "component") =>
                  /\ InstancePositions(s.last.art.id) # {}
                  /\ s.last.art.data = figmaData.instances[first(s.last.art.id)].id
                  /\ HasKey(s.pseudoComponents, s.last.art.id)
                  /\ \A n \in DOMAIN MapGet(s.pseudoComponents, s.last.art.id).pseudoCode :
                        LET line == MapGet(s.pseudoComponents, s.last.art.id).pseudoCode[n]
                        IN  line[1] = "json" =>
                               line = Json("instance", figmaData.instances[first(s.last.art.id)].id)
            /\ s.called # {} =>
                  InCallAI(s) \/ s.pseudoComponents # << >> \/ s.pseudoFrames # << >>

C29_Witness ==
    \E r \in DOMAIN run :
        /\ figmaData = DocLibrary
        /\ run[r].pc = "done"
        /\ run[r].client = "openai"
        /\ MapKeys(run[r].pseudoComponents) = <<"c1", "c2">>
        /\ run[r].pseudoComponents[1].value = FallbackComponent("Button", "i1")
        /\ run[r].pseudoComponents[2].value \in Payloads

---------------------------------------------------------------------------
(* The ids of the frames the canvas summaries list, canvas by canvas.      *)
ListedFrameIds(document) ==
    LET listed == FlatFrames(processCanvases(document))
    IN  [i \in DOMAIN listed |-> listed[i].id]

(* C30: whatever frames argument generateAllPseudoCode is called with, the *)
(* frames it stores a PseudoResult for are the frames of the canvas        *)
(* summaries of processCanvases, in the same order: a prefix of them while *)
(* it runs, the frame in generation being the next one listed, and all of  *)
(* them once it has returned.  Every stored frame is a direct FRAME child  *)
(* of a direct child of the root, and no canvas summary lists more frames  *)
(* than the canvas has children.                                           *)
C30_FramesAsListed ==
    \A r \in DOMAIN run :
        LET s == run[r]
            document == figmaData.document
            canvases == processCanvases(document)
            ids == ListedFrameIds(document)
            stored == MapKeys(s.pseudoFrames)
        IN  /\ IsPrefix(stored, ids)
            /\ s.pc = "done" => stored = ids
            /\ s.pc \in {"start", "ready", "components"} => stored = << >>
            /\ (InCallAI(s) /\ s.art.kind = "frame") =>
                  /\ Len(stored) < Len(ids)
                  /\ s.art.id = ids[Len(stored) + 1]
            /\ \A k \in DOMAIN stored :
                  \E c \in DOMAIN document.children :
                     \E n \in DOMAIN document.children[c].children :
                        /\ document.children[c].children[n].id = stored[k]
                        /\ document.children[c].children[n].type = "FRAME"
            /\ \A c \in DOMAIN canvases :
                  /\ Len(canvases[c].frames) <= canvases[c].children
                  /\ canvases[c].children = Len(document.children[c].children)

C30_Witness ==
    \E r \in DOMAIN run :
        /\ figmaData = DocNested
        /\ proc.frames = << >>
        /\ run[r].pc = "done"
        /\ MapKeys(run[r].pseudoFrames) = <<"1:1", "1:5">>
        /\ processCanvases(figmaData.document)[1].children = 3
        /\ processCanvases(figmaData.document)[2].frames = << >>

===========================================================================
